---- MODULE Spec2Model ----
(***************************************************************************)
(* A model of the goh2 cleartext HTTP/2 server: one connection with its    *)
(* reader task (Connection.Handle / handleHandshake / handleH2), its       *)
(* writer task (Connection.handleStreamEvents), one stream task per stream *)
(* (Stream.handleFrames) and one handler task per stream (Stream.goHandle).*)
(*                                                                         *)
(* An action is one blocking operation of a task (a socket read, a channel *)
(* send or receive, a wait) followed by the task's local computation up to *)
(* its next blocking operation.                                            *)
(*                                                                         *)
(* The codecs (package hpack: decoder, encoder and index table; the frame  *)
(* Encode methods and ParseFrame) are modelled on octets, and exercised by *)
(* a specification of their own, CodecSpec, whose actions are calls.       *)
(***************************************************************************)
EXTENDS Integers, Sequences, FiniteSets, TLC

\* ------------------------------------------------------------------------
\* Bounds of the model
\* ------------------------------------------------------------------------
\* Largest stream identifier the peer uses.
MaxStreamId == 3
\* Number of requests the peer sends: the frames after the handshake, and
\* the upgrade request of the h2c handshake.
MaxFrames == 2
\* Payload length of a frame that fits MaxFrameSize.
SmallLen == 5
\* Number of frames a peer that makes one request sends.
MaxStreamFrames == 3
\* Number of writes to the socket, from the first on, that are recorded.
SockLen == 3

\* ------------------------------------------------------------------------
\* Program constants
\* ------------------------------------------------------------------------
FrameData == 0
FrameHeaders == 1
FramePriority == 2
FrameRSTStream == 3
FrameSettings == 4
FramePushPromise == 5
FramePing == 6
FrameGoAway == 7
FrameWindowUpdate == 8
FrameContinuation == 9

\* frame.go: frameParsers, the type codes that have a parser.
frameParsers ==
    {FrameData, FrameHeaders, FrameRSTStream, FrameSettings, FramePing,
     FrameGoAway, FrameWindowUpdate, FrameContinuation}

\* Flag bits.  0x1 is END_STREAM on DATA and HEADERS and ACK on SETTINGS and
\* PING; 0x4 is END_HEADERS on HEADERS and CONTINUATION.
DataEndStream == 1
HeadersEndStream == 1
HeadersEndHeaders == 4
SettingsAck == 1
PingAck == 1
ContinuationEndHeaders == 4

ErrProtocolError == 1
ErrStreamClosed == 5
ErrFrameSizeError == 6
ErrInternalError == 2
ErrHTTP11Required == 13

SettingsHeaderTableSize == 1
SettingsEnablePush == 2
SettingsMaxConcurrentStreams == 3
SettingsInitialWindowSize == 4
SettingsMaxFrameSize == 5
SettingsMaxHeaderListSize == 6

\* Capacity of the streamEvents channel.
EventQueueCap == 8

\* The default MaxFrameSize of NewSettings.
DefaultMaxFrameSize == 16384

\* StreamWriter: the buffered octets above which Write flushes, and the
\* largest DATA payload sendData reads from the buffer.
FlushSize == 4096

\* NewStreamWriter: the status code of a response whose handler sets none.
DefaultStatusCode == 200

\* Payload length above the default MaxFrameSize, and a MaxFrameSize a peer
\* may announce that admits it.
BigLen == DefaultMaxFrameSize + 1
RaisedMaxFrameSize == 2 * DefaultMaxFrameSize

\* http11: Body == nil.
NoBody == 0 - 1
\* settings: MaxHeaderListSize == nil.
Unlimited == 0 - 1

\* Stream states (stream.go).
StreamStateIdle == "idle"
StreamStateOpen == "open"
StreamStateClosed == "closed"
StreamStateHalfClosedRemote == "half closed (remote)"
StreamStateHalfClosedLocal == "half closed (local)"
StreamStateReservedLocal == "reserved (local)"

\* Errors handleH2 / readFrame return.
ErrConnProtocolError == "PROTOCOL_ERROR"
ErrConnStreamError == "STREAM_ERROR"
ErrExceedsMaxFrameSize == "exceeds MAX_FRAME_SIZE"
ErrUnknownFrame == "frame is UNKNOWN"

\* ------------------------------------------------------------------------
\* Frames
\* ------------------------------------------------------------------------
\* A frame: the header fields (type, sid, len, flags), the payload as far as
\* the connection interprets it (block: a header block fragment, args: the
\* SETTINGS entries <<identifier, value>>, opaque: the PING payload, code and
\* last: the error code and last-stream-id of RST_STREAM and GOAWAY, data:
\* the payload of a DATA frame the server sends), and the fields the typed
\* decoders derive (es, eh, ack, hdrs).
NoFrame ==
    [type |-> 0 - 1, sid |-> 0, len |-> 0, flags |-> {}, es |-> FALSE,
     eh |-> FALSE, ack |-> FALSE, block |-> "", hdrs |-> <<>>, args |-> <<>>,
     opaque |-> "", code |-> 0, last |-> 0, data |-> <<>>]

Framed(t, sid, len, flags) ==
    [NoFrame EXCEPT !.type = t, !.sid = sid, !.len = len, !.flags = flags]

\* ------------------------------------------------------------------------
\* Octet strings
\* ------------------------------------------------------------------------
\* An octet string is a sequence of runs [tag, n]: n octets, in order, of
\* the chunk tag (the tag-th DATA payload a stream accepted, the tag-th Write
\* of a handler).  Octets leave a buffer from its front, so a run stands for
\* the octets of its chunk that have not left yet.
Run(tag, n) == IF n = 0 THEN <<>> ELSE <<[tag |-> tag, n |-> n]>>

RECURSIVE BytesLen(_)
\* bytes.Buffer.Len, len(bs)
BytesLen(b) == IF b = <<>> THEN 0 ELSE b[1].n + BytesLen(Tail(b))

\* bytes.Buffer.Write: b is appended to a.  Adjacent runs of one chunk are
\* one run.
Cat(a, b) ==
    IF a # <<>> /\ b # <<>> /\ a[Len(a)].tag = b[1].tag
    THEN SubSeq(a, 1, Len(a) - 1)
         \o <<[tag |-> b[1].tag, n |-> a[Len(a)].n + b[1].n]>>
         \o Tail(b)
    ELSE a \o b

RECURSIVE Take(_, _)
\* bytes.Buffer.Read into a slice of n octets: the octets it returns.
Take(b, n) ==
    IF n = 0 \/ b = <<>>
    THEN <<>>
    ELSE IF b[1].n <= n
         THEN <<b[1]>> \o Take(Tail(b), n - b[1].n)
         ELSE <<[tag |-> b[1].tag, n |-> n]>>

RECURSIVE Drop(_, _)
\* bytes.Buffer.Read into a slice of n octets: the octets it leaves.
Drop(b, n) ==
    IF n = 0 \/ b = <<>>
    THEN b
    ELSE IF b[1].n <= n
         THEN Drop(Tail(b), n - b[1].n)
         ELSE <<[tag |-> b[1].tag, n |-> b[1].n - n]>> \o Tail(b)

RECURSIVE Itoa(_)
\* fmt.Sprintf("%d", n) for n >= 0: the decimal digits of n.
Itoa(n) == IF n < 10 THEN <<n>> ELSE Itoa(n \div 10) \o <<n % 10>>

\* FrameHeader.hasFlag
hasFlag(f, flag) == flag \in f.flags

\* The header block fragments the peer sends: two that decode to one header
\* each, and one that the HPACK decoder rejects.
BadBlock == "bad"
Blocks == {"a", "b"}

\* HPackDecoder.Decode, on the abstract blocks: the decoded header list, or
\* an error.
HPackDecode(block) ==
    IF block = BadBlock
    THEN [err |-> TRUE, headers |-> <<>>]
    ELSE [err |-> FALSE, headers |-> IF block = "" THEN <<>> ELSE <<block>>]

RECURSIVE DecodeArgs(_)
\* SettingsFrame.Decode: the 16-bit identifier is converted to SettingsParam,
\* an 8-bit type, which keeps its low octet.
DecodeArgs(entries) ==
    IF entries = <<>>
    THEN <<>>
    ELSE <<[Param |-> entries[1][1] % 256, Value |-> entries[1][2]]>>
         \o DecodeArgs(Tail(entries))

\* PingFrame.Decode copies the payload and leaves Ack at its zero value.
PingDecodeAck(f) == FALSE

\* The typed decoders (DataFrame.Decode, HeadersFrame.Decode, ...).
Decode(f) ==
    CASE f.type = FrameData ->
           [f EXCEPT !.es = hasFlag(f, DataEndStream)]
      [] f.type = FrameHeaders ->
           [f EXCEPT !.es = hasFlag(f, HeadersEndStream),
                     !.eh = hasFlag(f, HeadersEndHeaders)]
      [] f.type = FrameSettings ->
           [f EXCEPT !.args = DecodeArgs(f.args),
                     !.ack = hasFlag(f, SettingsAck)]
      [] f.type = FramePing ->
           [f EXCEPT !.ack = PingDecodeAck(f)]
      [] f.type = FrameContinuation ->
           [f EXCEPT !.eh = hasFlag(f, ContinuationEndHeaders)]
      [] OTHER -> f

\* A length check that is made for DATA alone.
DataTooLarge(f, maxSize) == f.type = FrameData /\ f.len > maxSize

\* ParseFrame, lines 143-148: the length check, made for DATA and HEADERS.
FrameTooLarge(f, maxSize) ==
    f.type \in {FrameHeaders, FrameData} /\ f.len > maxSize

\* ParseFrame: what the frame reader returns for the frame header and
\* payload f under the current MaxFrameSize.
ParseFrame(f, maxSize) ==
    IF FrameTooLarge(f, maxSize)
    THEN [frame |-> NoFrame, err |-> ErrExceedsMaxFrameSize]
    ELSE IF f.type \in frameParsers
         THEN [frame |-> Decode(f), err |-> "nil"]
         ELSE [frame |-> NoFrame, err |-> ErrUnknownFrame]

\* ------------------------------------------------------------------------
\* Connection settings
\* ------------------------------------------------------------------------
NewSettings ==
    [HeaderTableSize |-> 4096, EnablePush |-> TRUE,
     MaxConcurrentStreams |-> 64, InitialWindowSize |-> 65535,
     MaxFrameSize |-> DefaultMaxFrameSize, MaxHeaderListSize |-> Unlimited]

SetValue(s, param, value) ==
    CASE param = SettingsHeaderTableSize -> [s EXCEPT !.HeaderTableSize = value]
      [] param = SettingsEnablePush -> [s EXCEPT !.EnablePush = (value = 1)]
      [] param = SettingsMaxConcurrentStreams ->
           [s EXCEPT !.MaxConcurrentStreams = value]
      [] param = SettingsInitialWindowSize ->
           [s EXCEPT !.InitialWindowSize = value]
      [] param = SettingsMaxFrameSize -> [s EXCEPT !.MaxFrameSize = value]
      [] param = SettingsMaxHeaderListSize ->
           [s EXCEPT !.MaxHeaderListSize = value]
      [] OTHER -> s

\* A loop over the entries that stops after the first.
ApplyFirst(s, args) ==
    IF args = <<>> THEN s ELSE SetValue(s, args[1].Param, args[1].Value)

RECURSIVE ApplyArgs(_, _)
\* handleH2, case *SettingsFrame: for _, args := range fr.Args { SetValue }
ApplyArgs(s, args) ==
    IF args = <<>>
    THEN s
    ELSE ApplyArgs(SetValue(s, args[1].Param, args[1].Value), Tail(args))

\* ------------------------------------------------------------------------
\* What the peer sends
\* ------------------------------------------------------------------------
StreamIds == 0 .. MaxStreamId
\* Client-initiated (odd) stream identifiers: the streams that get a task.
Streams == {i \in 1 .. MaxStreamId : i % 2 = 1}

\* SETTINGS payloads: sequences of <<identifier, value>> entries.
SettingsPayloads ==
    { <<>>,
      << <<SettingsMaxFrameSize, RaisedMaxFrameSize>> >>,
      << <<SettingsMaxFrameSize, RaisedMaxFrameSize>>,
         <<SettingsMaxFrameSize, DefaultMaxFrameSize>> >> }

PingPayloads == {"p1", "p2"}

Settings(sid, flags, payload) ==
    [Framed(FrameSettings, sid, 6 * Len(payload), flags)
       EXCEPT !.args = payload]

Ping(sid, flags, payload) ==
    [Framed(FramePing, sid, 8, flags) EXCEPT !.opaque = payload]

Headers(sid, len, flags, b) ==
    [Framed(FrameHeaders, sid, len, flags) EXCEPT !.block = b]

Continuation(sid, flags, b) ==
    [Framed(FrameContinuation, sid, SmallLen, flags) EXCEPT !.block = b]

\* One frame of every type on stream sid.
AnyTypeOn(sid) ==
    {Framed(t, sid, SmallLen, {}) :
       t \in {FrameData, FrameRSTStream, FrameGoAway, FrameWindowUpdate,
              FramePriority, FramePushPromise}}
    \cup {Headers(sid, SmallLen, {HeadersEndHeaders}, "a"),
          Continuation(sid, {ContinuationEndHeaders}, "b"),
          Settings(sid, {}, << <<SettingsMaxFrameSize, RaisedMaxFrameSize>> >>),
          Settings(sid, {SettingsAck},
                   << <<SettingsMaxFrameSize, RaisedMaxFrameSize>> >>),
          Ping(sid, {}, "p1")}

\* The frames the peer may send after the handshake.  On stream 0 the
\* SETTINGS and PING frames come with every payload and flag; on a client
\* stream the DATA, HEADERS and CONTINUATION frames do, with lengths on both
\* sides of the default MaxFrameSize and a header block that does not
\* decode.
InputFramesOn(sid) ==
    AnyTypeOn(sid)
    \cup (IF sid = 0
          THEN {Settings(0, {}, a) : a \in SettingsPayloads}
               \cup {Ping(0, fl, o) : fl \in {{}, {PingAck}},
                                      o \in PingPayloads}
          ELSE {})
    \cup (IF sid % 2 = 1
          THEN {Framed(FrameData, sid, SmallLen, {DataEndStream}),
                Framed(FrameData, sid, BigLen, {}),
                Headers(sid, BigLen, {HeadersEndHeaders}, "a"),
                Headers(sid, SmallLen, {HeadersEndHeaders}, BadBlock),
                Continuation(sid, {}, "b"),
                Continuation(sid, {ContinuationEndHeaders}, BadBlock)}
               \cup {Headers(sid, SmallLen, fl, "a") :
                       fl \in SUBSET {HeadersEndStream, HeadersEndHeaders}}
          ELSE {})

InputFrames == UNION {InputFramesOn(sid) : sid \in StreamIds}

\* The HTTP/1.1 request bodies of the upgrade path, by their length: none,
\* empty, short, and of MaxFrameSize octets.
Bodies == {NoBody, 0, SmallLen, DefaultMaxFrameSize}

\* The HTTP2-Settings payloads of the upgrade path.
UpgradeSettings ==
    {<<>>, << <<SettingsMaxFrameSize, RaisedMaxFrameSize>> >>}

\* http11.validMethods
validMethods ==
    {"GET", "HEAD", "POST", "PUT", "DELETE", "CONNECT", "OPTIONS", "TRACE",
     "PATH"}

\* An HTTP/1.1 request as handleHandshake reads it: the number of parts of
\* its request line, its method, the value of its Upgrade header ("" when it
\* has none), its HTTP2-Settings header (whether it is there, whether it is
\* base64url, and the SETTINGS entries it encodes) and its body.
HTTP11Request(parts, method, upgrade, has, b64, payload, body) ==
    [parts |-> parts, Method |-> method, upgrade |-> upgrade,
     settings |-> [has |-> has, b64 |-> b64, payload |-> payload],
     Body |-> body]

\* No request read yet.
NoRequest == HTTP11Request(0, "", "", FALSE, FALSE, <<>>, NoBody)

\* The requests a peer opens the connection with: the client preface, the
\* upgrade requests, and a request for each way the handshake fails.
Requests ==
    {HTTP11Request(3, "PRI", "", FALSE, FALSE, <<>>, NoBody)}
    \cup {HTTP11Request(3, "GET", "h2c", TRUE, TRUE, payload, body) :
            payload \in UpgradeSettings, body \in Bodies}
    \cup {HTTP11Request(2, "GET", "h2c", TRUE, TRUE, <<>>, NoBody),
          HTTP11Request(3, "BREW", "h2c", TRUE, TRUE, <<>>, NoBody),
          HTTP11Request(3, "GET", "", TRUE, TRUE, <<>>, NoBody),
          HTTP11Request(3, "GET", "websocket", TRUE, TRUE, <<>>, NoBody),
          HTTP11Request(3, "GET", "h2c", FALSE, FALSE, <<>>, NoBody),
          HTTP11Request(3, "GET", "h2c", TRUE, FALSE, <<>>, NoBody)}

\* HTTP11Request.UnmarshalReader: the error it returns for the request line.
UnmarshalReader(req) ==
    CASE req.parts # 3 -> "did not get 3 parts from method"
      [] req.Method \notin validMethods /\ req.Method # "PRI" ->
           "unrecognized method"
      [] OTHER -> "nil"

\* An upgrade that takes a missing HTTP2-Settings header for an empty one.
SettingsOptional(req) ==
    CASE UnmarshalReader(req) # "nil" -> UnmarshalReader(req)
      [] req.Method = "PRI" -> "nil"
      [] req.upgrade # "h2c" -> "expected 'h2c' in upgrade"
      [] req.settings.has /\ ~req.settings.b64 -> "illegal base64 data"
      [] OTHER -> "nil"

\* handleHandshake, lines 169-198: the error it returns before it writes
\* anything, or "nil".
handleHandshakeError(req) ==
    CASE UnmarshalReader(req) # "nil" -> UnmarshalReader(req)
      [] req.Method = "PRI" -> "nil"
      [] req.upgrade # "h2c" -> "expected 'h2c' in upgrade"
      [] ~req.settings.has -> "expected 'http2-settings' header"
      [] ~req.settings.b64 -> "illegal base64 data"
      [] OTHER -> "nil"

\* The frames of a peer that makes one request, on stream 1: HEADERS that
\* end the header block, DATA, with and without END_STREAM, and RST_STREAM.
StreamFrames ==
    {Headers(1, SmallLen, fl, "a") :
       fl \in {{HeadersEndHeaders}, {HeadersEndHeaders, HeadersEndStream}}}
    \cup {Framed(FrameData, 1, SmallLen, fl) : fl \in {{}, {DataEndStream}}}
    \cup {Framed(FrameRSTStream, 1, SmallLen, {})}

\* What an application handler does, as the sequence of its calls: Write(n)
\* writes n octets to the response, WriteHeader(code) sets the status code,
\* ReadAll(n) reads the request body to its end through a slice of n octets.
Write(n) == [op |-> "Write", n |-> n]
WriteHeader(code) == [op |-> "WriteHeader", n |-> code]
ReadAll(n) == [op |-> "ReadAll", n |-> n]

\* The handler that returns at once.
NoCalls == <<>>

\* The application handlers: responses below, at and above the flush size,
\* written in one call and in two, with the status code set before and after
\* the first flush, and request bodies read in pieces and whole.
Handlers ==
    { <<Write(SmallLen)>>,
      <<Write(FlushSize)>>,
      <<WriteHeader(404), Write(FlushSize + 1), WriteHeader(500)>>,
      <<Write(SmallLen), Write(2 * FlushSize)>>,
      <<ReadAll(SmallLen - 2)>>,
      <<ReadAll(FlushSize), WriteHeader(404)>> }

\* ------------------------------------------------------------------------
\* State
\* ------------------------------------------------------------------------
VARIABLES
    settings,        \* Connection.settings
    maxStreamId,     \* Connection.maxStreamId
    streamHandlers,  \* the keys of Connection.streamHandlers
    streamMu,        \* Connection.streamMu: "free", or the task that holds it
    streamEvents,    \* Connection.streamEvents, a channel of capacity 8
    stream,          \* the stream tasks, by stream id
    cstate,          \* where Handle is: "handshake" or "h2"
    rpc,             \* the reader task's position
    cur, cont,             \* the frame the reader is handling
    pend,            \* the frame the reader's writeFrame is sending
    err,             \* the error handleHandshake / handleH2 returned
    hsBody,          \* handleHandshake: the request body still to deliver
    nread,           \* number of requests read: frames, and the upgrade request
    wpc,             \* the writer task's position
    wsid,            \* the stream id the writer's closeStream is removing
    ctxDone,         \* the connection-wide context is cancelled
    goAway,          \* history: the GOAWAY frame the reader has enqueued
    goAwayWritten,   \* history: that GOAWAY was written to the socket
    Handler,         \* Connection.Handler, the application handler
    h1,              \* handleHandshake: the HTTP/1.1 request it read
    sock,            \* history: the first SockLen writes to the socket
    indexTable,      \* the indexTable of the HPackDecoder under test
    call             \* the last call made to the codecs, and what it returned

vars ==
    <<settings, maxStreamId, streamHandlers, streamMu, streamEvents, stream,
      cstate, rpc, cur, cont, pend, err, hsBody, nread, wpc, wsid, ctxDone,
      goAway, goAwayWritten, Handler, h1, sock, indexTable, call>>

\* The state of the codecs under test, which no task of the connection
\* touches.
codecVars == <<indexTable, call>>

\* StreamOutgoingFrameEvent and StreamTransitionEvent
StreamOutgoingFrameEvent(sid, f) ==
    [ev |-> "frame", StreamID |-> sid, Frame |-> f, ToState |-> ""]
StreamTransitionEvent(sid, to) ==
    [ev |-> "transition", StreamID |-> sid, Frame |-> NoFrame, ToState |-> to]

\* A write that puts its octets before those written so far.
WriteBefore(item) == IF Len(sock) < SockLen THEN <<item>> \o sock ELSE sock

\* c.Write: what was written to the socket, the HTTP/1.1 response of the
\* upgrade or an encoded frame.
SwitchingProtocols == [kind |-> "HTTP/1.1 101", frame |-> NoFrame]
Encoded(f) == [kind |-> "frame", frame |-> f]
Write1(item) == IF Len(sock) < SockLen THEN Append(sock, item) ELSE sock

\* A SETTINGS frame with ACK set.
ackSettings == [Framed(FrameSettings, 0, 0, {}) EXCEPT !.ack = TRUE]

\* handleHandshake: the initial SETTINGS frame, without ACK and empty.
initSettings == Framed(FrameSettings, 0, 0, {})

GoAwayFrame(last, code) ==
    [Framed(FrameGoAway, 0, 0, {}) EXCEPT !.last = last, !.code = code]

\* A stream task and its handler task.
\*   pc: "none" (no task), "select", "transition", "writeFrame",
\*       "sendHeaders", "sendData", "handlerWg.Wait", "done"
\*   hpc: "none" (not started), "running" (in the handler, between two
\*       calls), "sendHeaders" and "sendData" (in Write, at the channel send
\*       of a flush), "handlerDone" (returned, at the send on handlerDone),
\*       "exited"
\*   hi: the handler's next call
\*   reqbuf, eof: the StreamReader; statusCode, sentHeaders, wbuf, closed:
\*       the StreamWriter
\*   history: starts (how many times the handler was started), accepted
\*       (the DATA payloads written to reqbuf), got and gotEOF (what the
\*       handler's reads returned), written and werr (what the handler's
\*       Writes wrote and returned), out (the frames enqueued through
\*       Stream.writeFrame)
NoStream ==
    [pc |-> "none", state |-> StreamStateIdle, es |-> FALSE,
     handlerDoer |-> FALSE, hpc |-> "none", hi |-> 1, sentHeaders |-> FALSE,
     statusCode |-> 0, wbuf |-> <<>>, closed |-> FALSE,
     reqHeaders |-> <<>>, reqbuf |-> <<>>, eof |-> FALSE, starts |-> 0,
     accepted |-> <<>>, got |-> <<>>, gotEOF |-> FALSE, written |-> <<>>,
     werr |-> <<>>, out |-> <<>>, tasks |-> 0]

\* NewStream: the stream starts idle, its task waiting in handleFrames.
NewStream == [NoStream EXCEPT !.pc = "select"]

\* ------------------------------------------------------------------------
\* The HPACK codec: package hpack
\* ------------------------------------------------------------------------
\* Strings and header blocks are sequences of octets, 0..255.  A call that
\* does not return has err "panic" (a run-time fault) or "hang" (a loop that
\* never ends); err "nil" is a normal return.

Pow2(n) == 2 ^ n

\* Header and the zero value Header{}.
H(name, value) ==
    [Name |-> name, Value |-> value, neverIndexed |-> FALSE]
NoHeader == H(<<>>, <<>>)

\* strings.ToLower on ASCII.
ToLower(str) ==
    [k \in 1..Len(str) |->
        IF str[k] \in 65..90 THEN str[k] + 32 ELSE str[k]]

NewHeader(name, value) == H(ToLower(name), value)

\* Header.Size
Size(header) == Len(header.Name) + Len(header.Value) + 32

\* staticTable; the element at Go's index k is staticTable[k + 1].
staticTable ==
    <<
      \* 0: "" ""
      H(<<>>,
        <<>>),
      \* 1: ":authority" ""
      H(<<58, 97, 117, 116, 104, 111, 114, 105, 116, 121>>,
        <<>>),
      \* 2: ":method" "GET"
      H(<<58, 109, 101, 116, 104, 111, 100>>,
        <<71, 69, 84>>),
      \* 3: ":method" "POST"
      H(<<58, 109, 101, 116, 104, 111, 100>>,
        <<80, 79, 83, 84>>),
      \* 4: ":path" "/"
      H(<<58, 112, 97, 116, 104>>,
        <<47>>),
      \* 5: ":path" "/index.html"
      H(<<58, 112, 97, 116, 104>>,
        <<47, 105, 110, 100, 101, 120, 46, 104, 116, 109, 108>>),
      \* 6: ":scheme" "http"
      H(<<58, 115, 99, 104, 101, 109, 101>>,
        <<104, 116, 116, 112>>),
      \* 7: ":scheme" "https"
      H(<<58, 115, 99, 104, 101, 109, 101>>,
        <<104, 116, 116, 112, 115>>),
      \* 8: ":status" "200"
      H(<<58, 115, 116, 97, 116, 117, 115>>,
        <<50, 48, 48>>),
      \* 9: ":status" "204"
      H(<<58, 115, 116, 97, 116, 117, 115>>,
        <<50, 48, 52>>),
      \* 10: ":status" "206"
      H(<<58, 115, 116, 97, 116, 117, 115>>,
        <<50, 48, 54>>),
      \* 11: ":status" "304"
      H(<<58, 115, 116, 97, 116, 117, 115>>,
        <<51, 48, 52>>),
      \* 12: ":status" "400"
      H(<<58, 115, 116, 97, 116, 117, 115>>,
        <<52, 48, 48>>),
      \* 13: ":status" "404"
      H(<<58, 115, 116, 97, 116, 117, 115>>,
        <<52, 48, 52>>),
      \* 14: ":status" "500"
      H(<<58, 115, 116, 97, 116, 117, 115>>,
        <<53, 48, 48>>),
      \* 15: "accept-charset" ""
      H(<<97, 99, 99, 101, 112, 116, 45, 99, 104, 97, 114, 115, 101, 116>>,
        <<>>),
      \* 16: "accept-encoding" "gzip, deflate"
      H(<<97, 99, 99, 101, 112, 116, 45, 101, 110, 99, 111, 100, 105, 110, 103>>,
        <<103, 122, 105, 112, 44, 32, 100, 101, 102, 108, 97, 116, 101>>),
      \* 17: "accept-language" ""
      H(<<97, 99, 99, 101, 112, 116, 45, 108, 97, 110, 103, 117, 97, 103, 101>>,
        <<>>),
      \* 18: "accept-ranges" ""
      H(<<97, 99, 99, 101, 112, 116, 45, 114, 97, 110, 103, 101, 115>>,
        <<>>),
      \* 19: "accept" ""
      H(<<97, 99, 99, 101, 112, 116>>,
        <<>>),
      \* 20: "access-control-allow-origin" ""
      H(<<97, 99, 99, 101, 115, 115, 45, 99, 111, 110, 116, 114, 111, 108, 45, 97, 108, 108, 111, 119, 45, 111, 114, 105, 103, 105, 110>>,
        <<>>),
      \* 21: "age" ""
      H(<<97, 103, 101>>,
        <<>>),
      \* 22: "allow" ""
      H(<<97, 108, 108, 111, 119>>,
        <<>>),
      \* 23: "authorization" ""
      H(<<97, 117, 116, 104, 111, 114, 105, 122, 97, 116, 105, 111, 110>>,
        <<>>),
      \* 24: "cache-control" ""
      H(<<99, 97, 99, 104, 101, 45, 99, 111, 110, 116, 114, 111, 108>>,
        <<>>),
      \* 25: "content-disposition" ""
      H(<<99, 111, 110, 116, 101, 110, 116, 45, 100, 105, 115, 112, 111, 115, 105, 116, 105, 111, 110>>,
        <<>>),
      \* 26: "content-encoding" ""
      H(<<99, 111, 110, 116, 101, 110, 116, 45, 101, 110, 99, 111, 100, 105, 110, 103>>,
        <<>>),
      \* 27: "content-language" ""
      H(<<99, 111, 110, 116, 101, 110, 116, 45, 108, 97, 110, 103, 117, 97, 103, 101>>,
        <<>>),
      \* 28: "content-length" ""
      H(<<99, 111, 110, 116, 101, 110, 116, 45, 108, 101, 110, 103, 116, 104>>,
        <<>>),
      \* 29: "content-location" ""
      H(<<99, 111, 110, 116, 101, 110, 116, 45, 108, 111, 99, 97, 116, 105, 111, 110>>,
        <<>>),
      \* 30: "content-range" ""
      H(<<99, 111, 110, 116, 101, 110, 116, 45, 114, 97, 110, 103, 101>>,
        <<>>),
      \* 31: "content-type" ""
      H(<<99, 111, 110, 116, 101, 110, 116, 45, 116, 121, 112, 101>>,
        <<>>),
      \* 32: "cookie" ""
      H(<<99, 111, 111, 107, 105, 101>>,
        <<>>),
      \* 33: "date" ""
      H(<<100, 97, 116, 101>>,
        <<>>),
      \* 34: "etag" ""
      H(<<101, 116, 97, 103>>,
        <<>>),
      \* 35: "expect" ""
      H(<<101, 120, 112, 101, 99, 116>>,
        <<>>),
      \* 36: "expires" ""
      H(<<101, 120, 112, 105, 114, 101, 115>>,
        <<>>),
      \* 37: "from" ""
      H(<<102, 114, 111, 109>>,
        <<>>),
      \* 38: "host" ""
      H(<<104, 111, 115, 116>>,
        <<>>),
      \* 39: "if-match" ""
      H(<<105, 102, 45, 109, 97, 116, 99, 104>>,
        <<>>),
      \* 40: "if-modified-since" ""
      H(<<105, 102, 45, 109, 111, 100, 105, 102, 105, 101, 100, 45, 115, 105, 110, 99, 101>>,
        <<>>),
      \* 41: "if-none-match" ""
      H(<<105, 102, 45, 110, 111, 110, 101, 45, 109, 97, 116, 99, 104>>,
        <<>>),
      \* 42: "if-range" ""
      H(<<105, 102, 45, 114, 97, 110, 103, 101>>,
        <<>>),
      \* 43: "if-unmodified-since" ""
      H(<<105, 102, 45, 117, 110, 109, 111, 100, 105, 102, 105, 101, 100, 45, 115, 105, 110, 99, 101>>,
        <<>>),
      \* 44: "last-modified" ""
      H(<<108, 97, 115, 116, 45, 109, 111, 100, 105, 102, 105, 101, 100>>,
        <<>>),
      \* 45: "link" ""
      H(<<108, 105, 110, 107>>,
        <<>>),
      \* 46: "location" ""
      H(<<108, 111, 99, 97, 116, 105, 111, 110>>,
        <<>>),
      \* 47: "max-forwards" ""
      H(<<109, 97, 120, 45, 102, 111, 114, 119, 97, 114, 100, 115>>,
        <<>>),
      \* 48: "proxy-authenticate" ""
      H(<<112, 114, 111, 120, 121, 45, 97, 117, 116, 104, 101, 110, 116, 105, 99, 97, 116, 101>>,
        <<>>),
      \* 49: "proxy-authorization" ""
      H(<<112, 114, 111, 120, 121, 45, 97, 117, 116, 104, 111, 114, 105, 122, 97, 116, 105, 111, 110>>,
        <<>>),
      \* 50: "range" ""
      H(<<114, 97, 110, 103, 101>>,
        <<>>),
      \* 51: "referer" ""
      H(<<114, 101, 102, 101, 114, 101, 114>>,
        <<>>),
      \* 52: "refresh" ""
      H(<<114, 101, 102, 114, 101, 115, 104>>,
        <<>>),
      \* 53: "retry-after" ""
      H(<<114, 101, 116, 114, 121, 45, 97, 102, 116, 101, 114>>,
        <<>>),
      \* 54: "server" ""
      H(<<115, 101, 114, 118, 101, 114>>,
        <<>>),
      \* 55: "set-cookie" ""
      H(<<115, 101, 116, 45, 99, 111, 111, 107, 105, 101>>,
        <<>>),
      \* 56: "strict-transport-security" ""
      H(<<115, 116, 114, 105, 99, 116, 45, 116, 114, 97, 110, 115, 112, 111, 114, 116, 45, 115, 101, 99, 117, 114, 105, 116, 121>>,
        <<>>),
      \* 57: "transfer-encoding" ""
      H(<<116, 114, 97, 110, 115, 102, 101, 114, 45, 101, 110, 99, 111, 100, 105, 110, 103>>,
        <<>>),
      \* 58: "user-agent" ""
      H(<<117, 115, 101, 114, 45, 97, 103, 101, 110, 116>>,
        <<>>),
      \* 59: "vary" ""
      H(<<118, 97, 114, 121>>,
        <<>>),
      \* 60: "via" ""
      H(<<118, 105, 97>>,
        <<>>),
      \* 61: "www-authenticate" ""
      H(<<119, 119, 119, 45, 97, 117, 116, 104, 101, 110, 116, 105, 99, 97, 116, 101>>,
        <<>>)
    >>

\* NewIndexTable
DefaultMaxSize == 4096
NewIndexTable ==
    [dynamicTable |-> <<>>, currentSize |-> 0, maxSize |-> DefaultMaxSize,
     panic |-> FALSE]

\* indexTable.Get
Get(i, index) ==
    IF index <= 0
    THEN [header |-> NoHeader, err |-> "ErrIndexingTable"]
    ELSE IF index < Len(staticTable)
    THEN [header |-> staticTable[index + 1], err |-> "nil"]
    ELSE IF index - Len(staticTable) < Len(i.dynamicTable)
    THEN [header |-> i.dynamicTable[index - Len(staticTable) + 1],
          err |-> "nil"]
    ELSE [header |-> NoHeader, err |-> "ErrIndexingTable"]

\* indexTable.reduce: while the charged size exceeds the maximum, the loop
\* reads the element at Go's index len(dynamicTable), which faults unless
\* that index is below the length.
RECURSIVE reduce(_)
reduce(i) ==
    IF i.currentSize > i.maxSize
    THEN LET k == Len(i.dynamicTable)
         IN  IF k >= Len(i.dynamicTable)
             THEN [i EXCEPT !.panic = TRUE]
             ELSE reduce([i EXCEPT
                     !.dynamicTable = SubSeq(i.dynamicTable, 1,
                                             Len(i.dynamicTable) - 1),
                     !.currentSize = i.currentSize
                                       - Size(i.dynamicTable[k + 1])])
    ELSE i

\* indexTable.UpdateMaxSize
UpdateMaxSize(i, size) == reduce([i EXCEPT !.maxSize = size])

\* indexTable.Add
Add(i, header) ==
    reduce([i EXCEPT !.dynamicTable = <<header>> \o i.dynamicTable,
                     !.currentSize = i.currentSize + Size(header)])

\* decInt: the integer with an N-bit prefix at the head of bs, and bs after
\* the call.  After a one-octet integer bs starts after that octet; in the
\* loop bs is advanced before each octet is read and not after the last.
\* panic: the octet read is past the end of bs.
RECURSIVE decIntLoopSameShift(_, _, _)
\* A decInt loop that does not advance the shift.
decIntLoopSameShift(bs, i, m) ==
    IF Tail(bs) = <<>>
    THEN [i |-> i, bs |-> Tail(bs), panic |-> TRUE]
    ELSE IF Tail(bs)[1] < 128
    THEN [i |-> i + (Tail(bs)[1] % 128) * Pow2(m), bs |-> Tail(bs),
          panic |-> FALSE]
    ELSE decIntLoopSameShift(Tail(bs), i + (Tail(bs)[1] % 128) * Pow2(m), m)

RECURSIVE decIntLoop(_, _, _)
decIntLoop(bs, i, m) ==
    LET rest == Tail(bs)
    IN  IF rest = <<>>
        THEN [i |-> i, bs |-> rest, panic |-> TRUE]
        ELSE LET oct == rest[1]
                 j == i + (oct % 128) * Pow2(m)
             IN  IF oct < 128
                 THEN [i |-> j, bs |-> rest, panic |-> FALSE]
                 ELSE decIntLoop(rest, j, m + 7)

decInt(bs, prefix) ==
    IF bs = <<>>
    THEN [i |-> 0, bs |-> bs, panic |-> TRUE]
    ELSE LET mask == Pow2(prefix) - 1
             i == bs[1] % Pow2(prefix)
         IN  IF i < mask
             THEN [i |-> i, bs |-> Tail(bs), panic |-> FALSE]
             ELSE decIntLoop(bs, i, 0)

\* HuffmanDecoder is not modelled: a string literal with the Huffman flag
\* has err "HuffmanDecoder".
HuffmanDecoder(dec) == [str |-> <<>>, err |-> "HuffmanDecoder"]

\* readStringLiteral, lines 38-51: d is what decInt returned for the
\* length.  bs[:n] and bs[n:] fault when n exceeds len(bs) (the blocks of
\* the model have no capacity beyond their length).
stringOfLength(huffman, d) ==
    IF d.panic \/ d.i > Len(d.bs)
    THEN [str |-> <<>>, bs |-> d.bs, err |-> "panic"]
    ELSE IF huffman
    THEN [str |-> <<>>, bs |-> d.bs,
          err |-> HuffmanDecoder(SubSeq(d.bs, 1, d.i)).err]
    ELSE [str |-> SubSeq(d.bs, 1, d.i),
          bs |-> SubSeq(d.bs, d.i + 1, Len(d.bs)),
          err |-> "nil"]

\* readStringLiteral
readStringLiteral(bs) ==
    IF bs = <<>>
    THEN [str |-> <<>>, bs |-> bs, err |-> "panic"]
    ELSE stringOfLength(bs[1] >= 128, decInt(bs, 7))

\* readHeaderFieldInternal, lines 60-67 and 73-80: the header of a name and
\* of what readStringLiteral returned for the value.
headerOf(name, val) ==
    IF val.err # "nil"
    THEN [header |-> NoHeader, bs |-> val.bs, err |-> val.err]
    ELSE [header |-> H(name, val.str), bs |-> val.bs, err |-> "nil"]

\* readHeaderFieldInternal, lines 56-67: g is what indexTable.Get returned
\* for the name.
indexedName(g, bs) ==
    IF g.err # "nil"
    THEN [header |-> NoHeader, bs |-> bs, err |-> g.err]
    ELSE headerOf(g.header.Name, readStringLiteral(bs))

\* readHeaderFieldInternal, lines 69-80: name is what readStringLiteral
\* returned for the name.
literalName(name) ==
    IF name.err # "nil"
    THEN [header |-> NoHeader, bs |-> name.bs, err |-> name.err]
    ELSE headerOf(name.str, readStringLiteral(name.bs))

\* HPackDecoder.readHeaderFieldInternal; d is what decInt returned for the
\* index.
readHeaderFieldInternal(i, d) ==
    IF d.panic
    THEN [header |-> NoHeader, bs |-> d.bs, err |-> "panic"]
    ELSE IF d.i > 0
    THEN indexedName(Get(i, d.i), d.bs)
    ELSE literalName(readStringLiteral(d.bs))

\* HPackDecoder.Decode: the loop over the fields of the block bs, with the
\* decoder's index table i and the headers decoded so far.  The result has
\* the header list, the error, the index table after the call and the part
\* of the block that was not consumed.
Decoded(headers, i, bs, e) ==
    [headers |-> headers, indexTable |-> i, bs |-> bs, err |-> e]

RECURSIVE DecodeLoop(_, _, _)

\* Decode, lines 98-103: g is what indexTable.Get returned.
indexedField(i, headers, bs, g) ==
    IF g.err # "nil"
    THEN Decoded(<<>>, i, bs, g.err)
    ELSE DecodeLoop(i, bs, Append(headers, g.header))

\* Decode, lines 109-110: added is the index table after Add.
addedField(added, headers, r) ==
    IF added.panic
    THEN Decoded(<<>>, added, r.bs, "panic")
    ELSE DecodeLoop(added, r.bs, Append(headers, r.header))

\* Decode, lines 106-117: r is what readHeaderFieldInternal returned.
literalField(i, headers, r, incrementedIndexed, neverIndexing) ==
    IF r.err # "nil"
    THEN Decoded(<<>>, i, r.bs, r.err)
    ELSE IF incrementedIndexed
    THEN addedField(Add(i, r.header), headers, r)
    ELSE DecodeLoop(i, r.bs,
           Append(headers, [r.header EXCEPT !.neverIndexed = neverIndexing]))

\* Decode, lines 97-103: d is what decInt returned for the index.
indexOf(i, headers, d) ==
    IF d.panic
    THEN Decoded(<<>>, i, d.bs, "panic")
    ELSE indexedField(i, headers, d.bs, Get(i, d.i))

DecodeLoop(i, bs, headers) ==
    IF bs = <<>> THEN Decoded(headers, i, bs, "nil")
    ELSE
    LET field == bs[1]
        indexedHeader == field >= 128
        incrementedIndexed == field \div 64 = 1
        woIndexing == field \div 16 = 0
        neverIndexing == field \div 16 = 1
        sizeUpdate == field \div 32 = 1
    IN  IF indexedHeader
        THEN indexOf(i, headers, decInt(bs, 7))
        ELSE IF incrementedIndexed \/ woIndexing \/ neverIndexing
        THEN literalField(i, headers,
               readHeaderFieldInternal(i,
                 decInt(bs, IF incrementedIndexed THEN 6 ELSE 4)),
               incrementedIndexed, neverIndexing)
        ELSE \* sizeUpdate: the branch consumes nothing, and the loop
             \* meets the same octet again
             Decoded(<<>>, i, bs, "hang")

HPackDecoderDecode(i, bs) == DecodeLoop(i, bs, <<>>)

\* encodeInt.  headerByte | num is headerByte + num, the header bytes of
\* the encoder having no bit of the prefix set.
RECURSIVE encodeIntLoop(_)
encodeIntLoop(num) ==
    IF num \div 128 = 0
    THEN <<num % 128>>
    ELSE <<(num % 128) + 128>> \o encodeIntLoop(num \div 128)

encodeInt(headerByte, prefix, num) ==
    LET mask == Pow2(prefix) - 1
    IN  IF num < mask
        THEN <<headerByte + num>>
        ELSE <<headerByte + mask>> \o encodeIntLoop(num - mask)

\* encodeStringLiteral
encodeStringLiteral(str) == encodeInt(0, 7, Len(str)) \o str

\* HPackEncoder.Encode
RECURSIVE HPackEncoderEncode(_)
HPackEncoderEncode(headers) ==
    IF headers = <<>> THEN <<>>
    ELSE <<0>> \o encodeStringLiteral(Head(headers).Name)
              \o encodeStringLiteral(Head(headers).Value)
              \o HPackEncoderEncode(Tail(headers))

\* ------------------------------------------------------------------------
\* The frame codec on octets: EncodeFrame, the typed Encode methods,
\* ParseFrame and the typed Decode methods
\* ------------------------------------------------------------------------
DataPadded == 8
HeadersPadded == 8
HeadersPriority == 32

\* binary.BigEndian.AppendUint32, Uint32 and Uint16.  The 32-bit values of
\* the model are below 2^31.
AppendUint32(v) ==
    <<(v \div 16777216) % 256, (v \div 65536) % 256, (v \div 256) % 256,
      v % 256>>
Uint32(bs) == bs[1] * 16777216 + bs[2] * 65536 + bs[3] * 256 + bs[4]
Uint16(bs) == bs[1] * 256 + bs[2]

\* binary.BigEndian.Uint32(bs) & (1<<31 - 1)
Uint31(bs) == Uint32(<<bs[1] % 128, bs[2], bs[3], bs[4]>>)

\* FrameHeader.hasFlag on the flags octet, for a flag of one bit.
hasFlagBit(Flags, flag) == (Flags \div flag) % 2 = 1

\* The octets of s from Go's index n on, s[n:].
From(s, n) == SubSeq(s, n + 1, Len(s))

\* EncodeFrame
EncodeFrame(payload, frameType, flags, streamid) ==
    <<(Len(payload) \div 65536) % 256, (Len(payload) \div 256) % 256,
      Len(payload) % 256, frameType, flags>>
      \o AppendUint32(streamid) \o payload

\* A typed frame: the FrameHeader fields the Encode methods read and the
\* fields of DataFrame, HeadersFrame, RSTStreamFrame, SettingsFrame,
\* PingFrame, GoAwayFrame, WindowUpdateFrame and ContinuationFrame, at
\* their zero values.
TypedFrame(type, sid) ==
    [Type |-> type, StreamID |-> sid, Padded |-> FALSE, EndStream |-> FALSE,
     EndHeaders |-> FALSE, Priority |-> FALSE, Ack |-> FALSE,
     PadLength |-> 0, StreamDependency |-> 0, ExclusiveStreamDep |-> FALSE,
     Weight |-> 0, Data |-> <<>>, BlockFragment |-> <<>>, Opaque |-> <<>>,
     Args |-> <<>>, ErrorCode |-> 0, LastStreamID |-> 0, SizeIncrement |-> 0]

Flag(b, flag) == IF b THEN flag ELSE 0

RECURSIVE EncodeArgs(_)
\* SettingsFrame.Encode, lines 394-402: three octets for the parameter, of
\* which the first two are zero (SettingsParam has 8 bits), and four for
\* the value.
EncodeArgs(args) ==
    IF args = <<>> THEN <<>>
    ELSE <<0, 0, Head(args).Param>> \o AppendUint32(Head(args).Value)
           \o EncodeArgs(Tail(args))

\* The Encode methods of the typed frames.  (exclusive << 7) | byte(dep >>
\* 24) is a sum, the stream dependencies of the model being below 2^31.
FrameEncode(f) ==
    CASE f.Type = FrameData ->
           EncodeFrame(f.Data, FrameData, Flag(f.EndStream, DataEndStream),
                       f.StreamID)
      [] f.Type = FrameHeaders ->
           EncodeFrame(
             (IF f.Padded THEN <<f.PadLength>> ELSE <<>>)
               \o (IF f.Priority
                   THEN <<Flag(f.ExclusiveStreamDep, 128)
                            + ((f.StreamDependency \div 16777216) % 256),
                          (f.StreamDependency \div 65536) % 256,
                          (f.StreamDependency \div 256) % 256,
                          f.StreamDependency % 256,
                          f.Weight>>
                   ELSE <<>>)
               \o f.BlockFragment
               \o (IF f.Padded THEN [k \in 1..f.PadLength |-> 0] ELSE <<>>),
             FrameHeaders,
             Flag(f.EndStream, HeadersEndStream)
               + Flag(f.EndHeaders, HeadersEndHeaders)
               + Flag(f.Padded, HeadersPadded)
               + Flag(f.Priority, HeadersPriority),
             f.StreamID)
      [] f.Type = FrameRSTStream ->
           EncodeFrame(AppendUint32(f.ErrorCode), FrameRSTStream, 0,
                       f.StreamID)
      [] f.Type = FrameSettings ->
           EncodeFrame(EncodeArgs(f.Args), FrameSettings,
                       Flag(f.Ack, SettingsAck), 0)
      [] f.Type = FramePing ->
           EncodeFrame(f.Opaque, FramePing, Flag(f.Ack, PingAck), 0)
      [] f.Type = FrameGoAway ->
           EncodeFrame(AppendUint32(f.LastStreamID)
                         \o AppendUint32(f.ErrorCode) \o f.Opaque,
                       FrameGoAway, 0, 0)
      [] f.Type = FrameWindowUpdate ->
           EncodeFrame(AppendUint32(f.SizeIncrement), FrameWindowUpdate, 0,
                       0)
      [] f.Type = FrameContinuation ->
           EncodeFrame(f.BlockFragment, FrameContinuation,
                       Flag(f.EndHeaders, ContinuationEndHeaders),
                       f.StreamID)

\* parseHeader, on the nine octets of a frame header.
parseHeader(bs) ==
    [Length |-> bs[1] * 65536 + bs[2] * 256 + bs[3], Type |-> bs[4],
     Flags |-> bs[5], StreamID |-> Uint31(From(bs, 5))]

\* SettingsFrame.Decode, lines 381-384: append, seen from the entries that
\* follow.
ArgBefore(arg, rest) ==
    [Args |-> <<arg>> \o rest.Args, panic |-> rest.panic]

RECURSIVE SettingsArgs(_)
\* SettingsFrame.Decode, lines 377-386: the entries of the payload, six
\* octets each; panic when fewer than six octets are left.
SettingsArgs(bs) ==
    IF bs = <<>> THEN [Args |-> <<>>, panic |-> FALSE]
    ELSE IF Len(bs) < 6 THEN [Args |-> <<>>, panic |-> TRUE]
    ELSE ArgBefore([Param |-> Uint16(bs) % 256,
                    Value |-> Uint32(From(bs, 2))],
                   SettingsArgs(From(bs, 6)))

\* A typed frame that was decoded, or a fault of its Decode.
DecodedFrame(f, panic) ==
    IF panic
    THEN [frame |-> TypedFrame(f.Type, f.StreamID), err |-> "panic"]
    ELSE [frame |-> f, err |-> "nil"]

\* DataFrame.Decode and HeadersFrame.Decode after the flags: bs is the
\* payload after the pad length, and after four octets of the priority
\* fields.
Unpadded(f, bs, field) ==
    DecodedFrame(
      [f EXCEPT ![field] = SubSeq(bs, 1, Len(bs) - f.PadLength)],
      Len(bs) < f.PadLength)

\* HeadersFrame.Decode, lines 269-276: the priority fields.
WithPriority(f, bs) ==
    IF ~f.Priority THEN Unpadded(f, bs, "BlockFragment")
    ELSE IF Len(bs) < 5 THEN DecodedFrame(f, TRUE)
    ELSE Unpadded([f EXCEPT !.ExclusiveStreamDep = bs[1] >= 128,
                            !.StreamDependency = Uint31(bs),
                            !.Weight = bs[5]],
                  From(bs, 4), "BlockFragment")

\* DataFrame.Decode and HeadersFrame.Decode, the pad length.
WithPadLength(f, bs) ==
    IF ~f.Padded THEN [f |-> f, bs |-> bs, panic |-> FALSE]
    ELSE IF bs = <<>> THEN [f |-> f, bs |-> bs, panic |-> TRUE]
    ELSE [f |-> [f EXCEPT !.PadLength = bs[1]], bs |-> From(bs, 1),
          panic |-> FALSE]

\* The Decode methods of the typed frames, on the frame header and the
\* payload.
FrameDecode(h, bs) ==
    LET f == TypedFrame(h.Type, h.StreamID)
    IN
    CASE h.Type = FrameData ->
           LET p == WithPadLength(
                      [f EXCEPT !.Padded = hasFlagBit(h.Flags, DataPadded),
                                !.EndStream =
                                   hasFlagBit(h.Flags, DataEndStream)], bs)
           IN  IF p.panic THEN DecodedFrame(f, TRUE)
               ELSE Unpadded(p.f, p.bs, "Data")
      [] h.Type = FrameHeaders ->
           LET p == WithPadLength(
                      [f EXCEPT
                         !.EndStream = hasFlagBit(h.Flags, HeadersEndStream),
                         !.EndHeaders =
                            hasFlagBit(h.Flags, HeadersEndHeaders),
                         !.Priority = hasFlagBit(h.Flags, HeadersPriority),
                         !.Padded = hasFlagBit(h.Flags, HeadersPadded)], bs)
           IN  IF p.panic THEN DecodedFrame(f, TRUE)
               ELSE WithPriority(p.f, p.bs)
      [] h.Type = FrameRSTStream ->
           IF Len(bs) < 4 THEN DecodedFrame(f, TRUE)
           ELSE DecodedFrame(
                  [f EXCEPT !.ErrorCode =
                     IF Uint32(bs) > ErrHTTP11Required
                     THEN ErrInternalError ELSE Uint32(bs)], FALSE)
      [] h.Type = FrameSettings ->
           DecodedFrame([f EXCEPT !.Args = SettingsArgs(bs).Args,
                                  !.Ack = hasFlagBit(h.Flags, SettingsAck)],
                        SettingsArgs(bs).panic)
      [] h.Type = FramePing ->
           DecodedFrame([f EXCEPT !.Opaque = bs], FALSE)
      [] h.Type = FrameGoAway ->
           IF Len(bs) < 8 THEN DecodedFrame(f, TRUE)
           ELSE DecodedFrame(
                  [f EXCEPT !.LastStreamID = Uint31(bs),
                            !.ErrorCode = Uint32(From(bs, 4)) % 256,
                            !.Opaque = From(bs, 8)], FALSE)
      [] h.Type = FrameWindowUpdate ->
           IF Len(bs) < 4 THEN DecodedFrame(f, TRUE)
           ELSE DecodedFrame([f EXCEPT !.SizeIncrement = Uint32(bs)], FALSE)
      [] h.Type = FrameContinuation ->
           DecodedFrame(
             [f EXCEPT !.EndHeaders =
                          hasFlagBit(h.Flags, ContinuationEndHeaders),
                       !.BlockFragment = bs], FALSE)

\* ParseFrame after parseHeader: h is the frame header and bs the octets
\* that follow it.
ParsePayload(h, bs, maxSize) ==
    IF h.Type \in {FrameHeaders, FrameData} /\ h.Length > maxSize
    THEN [frame |-> TypedFrame(h.Type, h.StreamID),
          err |-> ErrExceedsMaxFrameSize]
    ELSE IF Len(bs) < h.Length
    THEN [frame |-> TypedFrame(h.Type, h.StreamID), err |-> "EOF"]
    ELSE IF h.Type \in frameParsers
    THEN FrameDecode(h, SubSeq(bs, 1, h.Length))
    ELSE [frame |-> TypedFrame(h.Type, h.StreamID), err |-> ErrUnknownFrame]

\* ParseFrame on the octets of one frame, at least the nine of its header.
ParseFrameOctets(bs, maxSize) ==
    ParsePayload(parseHeader(SubSeq(bs, 1, 9)), From(bs, 9), maxSize)

\* The last call made to the codecs: none yet.
NoCall == [op |-> "none", in |-> <<>>, out |-> [err |-> "nil"]]

\* The state after construction, but for the application handler.
Constructed ==
    /\ settings = NewSettings
    /\ maxStreamId = 0
    /\ streamHandlers = {}
    /\ streamMu = "free"
    /\ streamEvents = <<>>
    /\ stream = [i \in Streams |-> NoStream]
    /\ cstate = "handshake"
    /\ rpc = "handshake"
    /\ cur = NoFrame
    /\ cont = NoFrame
    /\ pend = NoFrame
    /\ err = "nil"
    /\ hsBody = NoBody
    /\ nread = 0
    /\ wpc = "notstarted"
    /\ wsid = 0
    /\ ctxDone = FALSE
    /\ goAway = NoFrame
    /\ goAwayWritten = FALSE
    /\ sock = <<>>
    /\ h1 = NoRequest
    /\ indexTable = NewIndexTable
    /\ call = NoCall

\* A server whose handler returns at once.
Init == Constructed /\ Handler = NoCalls

\* A server with one of the handlers that read and write.
HandlerInit == Constructed /\ Handler \in Handlers

\* ------------------------------------------------------------------------
\* The reader task: Connection.Handle
\* ------------------------------------------------------------------------
\* A newStream that records the id of the last HEADERS as the highest.
newStreamLastSeen(sid) ==
    /\ maxStreamId' = sid
    /\ IF maxStreamId < sid /\ sid \notin streamHandlers
       THEN /\ streamHandlers' = streamHandlers \cup {sid}
            /\ stream' = [stream EXCEPT ![sid] =
                            [NewStream EXCEPT
                               !.tasks = stream[sid].tasks + 1]]
       ELSE UNCHANGED <<streamHandlers, stream>>

\* A newStream that looks the id up in the registry alone.
newStreamUnlessRegistered(sid) ==
    IF sid \in Streams \ streamHandlers
    THEN /\ maxStreamId' = IF maxStreamId < sid THEN sid ELSE maxStreamId
         /\ streamHandlers' = streamHandlers \cup {sid}
         /\ stream' = [stream EXCEPT ![sid] =
                         [NewStream EXCEPT !.tasks = stream[sid].tasks + 1]]
    ELSE UNCHANGED <<maxStreamId, streamHandlers, stream>>

\* Connection.newStream.  The field tasks of a stream counts the tasks
\* NewStream has started for its id.
newStream(sid) ==
    IF maxStreamId < sid
    THEN /\ maxStreamId' = sid
         /\ IF sid \in streamHandlers
            THEN UNCHANGED <<streamHandlers, stream>>
            ELSE /\ streamHandlers' = streamHandlers \cup {sid}
                 /\ stream' = [stream EXCEPT ![sid] =
                                 [NewStream EXCEPT
                                    !.tasks = stream[sid].tasks + 1]]
    ELSE UNCHANGED <<maxStreamId, streamHandlers, stream>>

\* A GOAWAY that names no stream.
GoAwayLastZero(e, last) ==
    CASE e = ErrConnProtocolError -> GoAwayFrame(0, ErrProtocolError)
      [] e = ErrConnStreamError -> GoAwayFrame(0, ErrStreamClosed)
      [] OTHER -> NoFrame

\* Handle, after handleH2 returned e: the GOAWAY it sends for a protocol or
\* stream error, or none.
GoAwayFor(e, last) ==
    CASE e = ErrConnProtocolError -> GoAwayFrame(last, ErrProtocolError)
      [] e = ErrConnStreamError -> GoAwayFrame(last, ErrStreamClosed)
      [] OTHER -> NoFrame

\* handleH2 returns e.  Handle sends the GOAWAY of e if it has one; then its
\* deferred function cancels the context and waits for the wait group.
Return(e) ==
    /\ err' = e
    /\ pend' = GoAwayFor(e, maxStreamId')
    /\ rpc' = IF GoAwayFor(e, maxStreamId') = NoFrame
              THEN "Wait"
              ELSE "writeFrame"
    /\ ctxDone' = (GoAwayFor(e, maxStreamId') = NoFrame)
    /\ UNCHANGED streamMu

\* The two errors of the failed lookup, exchanged.
SwappedStreamError(sid) ==
    IF maxStreamId' >= sid
    THEN ErrConnProtocolError
    ELSE ErrConnStreamError

\* handleH2, lines 372-378: sendToStream returned false for stream sid.
UnknownStreamError(sid) ==
    IF maxStreamId' >= sid
    THEN ErrConnStreamError
    ELSE ErrConnProtocolError

\* Connection.sendToStream(fr.sid, fr), up to the channel send: the reader
\* takes the registry mutex and looks the stream up (the registry being the
\* one this step leaves).  With no entry, sendToStream returns false.
sendToStream(fr) ==
    /\ cur' = fr
    /\ IF fr.sid \in streamHandlers'
       THEN /\ streamMu' = "reader"
            /\ rpc' = "chanSend"
            /\ pend' = NoFrame
            /\ UNCHANGED <<err, ctxDone>>
       ELSE Return(UnknownStreamError(fr.sid))

\* handleH2, lines 371-380: a frame of a stream goes to sendToStream, any
\* other ends the iteration (and the reader holds no frame).  The caller
\* says what becomes of cont.
ToStream(fr) ==
    IF fr.sid > 0
    THEN sendToStream(fr)
    ELSE /\ rpc' = "read"
         /\ cur' = NoFrame
         /\ pend' = NoFrame
         /\ UNCHANGED <<streamMu, err, ctxDone>>

\* handleH2, the switch on the frame type, for a frame that is neither
\* HEADERS nor rejected: what it enqueues, if anything.
Reply(fr) ==
    CASE fr.type = FrameSettings /\ ~fr.ack ->
           [Framed(FrameSettings, 0, 0, {}) EXCEPT !.ack = TRUE]
      [] fr.type = FramePing /\ ~fr.ack -> [fr EXCEPT !.ack = TRUE]
      [] OTHER -> NoFrame

\* An even-identifier check that is made for HEADERS alone.
EvenHeadersStreamID(fr) ==
    fr.type = FrameHeaders /\ fr.sid > 0 /\ fr.sid % 2 = 0

\* handleH2, line 300: the frame has an even, non-zero stream identifier.
EvenStreamID(fr) == fr.sid > 0 /\ fr.sid % 2 = 0

\* An assignment in place of the append.
OverwriteHeaders(headers, contHeaders) == contHeaders

\* handleH2, line 333: fr.Headers = append(fr.Headers, contHeaders...)
AppendHeaders(headers, contHeaders) == headers \o contHeaders

\* handleH2, lines 339-343: the header block of fr is complete.
HeadersComplete(fr) ==
    /\ newStream(fr.sid)
    /\ ToStream([fr EXCEPT !.eh = TRUE])
    /\ UNCHANGED settings

\* handleH2, one iteration up to its first blocking operation, for the
\* frame fr that readFrame returned.
Classify(fr) ==
    IF EvenStreamID(fr)
    THEN /\ UNCHANGED <<settings, maxStreamId, streamHandlers, stream>>
         /\ Return(ErrConnProtocolError)
         /\ cur' = fr
         /\ cont' = NoFrame
    ELSE IF fr.type = FrameHeaders
    THEN IF HPackDecode(fr.block).err
         THEN /\ UNCHANGED <<settings, maxStreamId, streamHandlers, stream>>
              /\ Return("decode")
              /\ cur' = NoFrame
              /\ cont' = NoFrame
         ELSE IF fr.eh
              THEN /\ HeadersComplete(
                        [fr EXCEPT !.hdrs = HPackDecode(fr.block).headers])
                   /\ cont' = NoFrame
              ELSE /\ cur' = [fr EXCEPT !.hdrs = HPackDecode(fr.block).headers]
                   /\ cont' = NoFrame
                   /\ rpc' = "continuation"
                   /\ UNCHANGED <<settings, maxStreamId, streamHandlers,
                                  streamMu, stream, pend, err, ctxDone>>
    ELSE /\ settings' = IF fr.type = FrameSettings /\ ~fr.ack
                        THEN ApplyArgs(settings, fr.args)
                        ELSE settings
         /\ UNCHANGED <<maxStreamId, streamHandlers, stream>>
         /\ IF Reply(fr) = NoFrame
            THEN ToStream(fr) /\ cont' = NoFrame
            ELSE /\ pend' = Reply(fr)
                 /\ rpc' = "writeFrame"
                 /\ cur' = IF fr.type = FramePing
                           THEN [fr EXCEPT !.ack = TRUE]
                           ELSE fr
                 /\ cont' = NoFrame
                 /\ UNCHANGED <<streamMu, err, ctxDone>>

\* readFrame fails with ErrExceedsMaxFrameSize on the frame header f: it
\* sends GOAWAY and handleH2 returns the error.
FrameSizeError(f) ==
    /\ err' = ErrExceedsMaxFrameSize
    /\ pend' = GoAwayFrame(maxStreamId, ErrFrameSizeError)
    /\ rpc' = "writeFrame"
    /\ UNCHANGED <<settings, maxStreamId, streamHandlers, streamMu, stream,
                   ctxDone>>

\* readFrame returns (nil, nil) for a frame of an unknown type, and handleH2
\* calls frame.Header() on the nil interface (line 300): a nil dereference.
\* The panic unwinds Handle, whose deferred function cancels and waits.
NilFrame(f) ==
    /\ err' = "panic"
    /\ rpc' = "Wait"
    /\ ctxDone' = TRUE
    /\ UNCHANGED <<settings, maxStreamId, streamHandlers, streamMu, stream,
                   pend>>

\* handleH2, line 295: the reader reads the next frame at the top of its
\* loop, the peer sending one of frames if it has sent fewer than max.  When
\* readFrame returns no frame, cur is the frame it read.
ReadFrameOf(frames, max) ==
    /\ UNCHANGED codecVars
    /\ rpc = "read"
    /\ nread < max
    /\ nread' = nread + 1
    /\ \E f \in frames :
         LET p == ParseFrame(f, settings.MaxFrameSize) IN
         CASE p.err = ErrExceedsMaxFrameSize ->
                FrameSizeError(f) /\ cur' = f /\ cont' = NoFrame
           [] p.err = ErrUnknownFrame ->
                NilFrame(f) /\ cur' = f /\ cont' = NoFrame
           [] OTHER -> Classify(p.frame)
    /\ UNCHANGED <<streamEvents, cstate, hsBody, wpc, wsid, goAway,
                   goAwayWritten, Handler, h1, sock>>

\* The peer sends any frame.
ReadFrame == ReadFrameOf(InputFrames, MaxFrames)

\* The peer makes one request, on stream 1.
ReadStreamFrame == ReadFrameOf(StreamFrames, MaxStreamFrames)

\* handleH2, lines 315-337: the reader reads the next frame of the header
\* block of cur; cont is that frame.  A nil frame (unknown type) fails the
\* type assertion.
ReadContinuation ==
    /\ UNCHANGED codecVars
    /\ rpc = "continuation"
    /\ nread < MaxFrames
    /\ nread' = nread + 1
    /\ \E f \in InputFrames :
         LET p == ParseFrame(f, settings.MaxFrameSize) IN
         CASE p.err = ErrExceedsMaxFrameSize ->
                FrameSizeError(f) /\ cont' = f /\ UNCHANGED cur
           [] p.err = ErrUnknownFrame ->
                /\ UNCHANGED <<cur, settings, maxStreamId, streamHandlers,
                               stream>>
                /\ cont' = f
                /\ Return(ErrConnProtocolError)
           [] p.err = "nil" /\ (p.frame.type # FrameContinuation
                                \/ p.frame.sid # cur.sid) ->
                /\ UNCHANGED <<cur, settings, maxStreamId, streamHandlers,
                               stream>>
                /\ cont' = p.frame
                /\ Return(ErrConnProtocolError)
           [] OTHER ->
                IF HPackDecode(p.frame.block).err
                THEN /\ UNCHANGED <<settings, maxStreamId, streamHandlers,
                                    stream>>
                     /\ Return("decode")
                     /\ cur' = NoFrame
                     /\ cont' = NoFrame
                ELSE IF p.frame.eh
                THEN /\ HeadersComplete(
                          [cur EXCEPT !.hdrs =
                             AppendHeaders(@, HPackDecode(p.frame.block).headers)])
                     /\ cont' = IF cur.sid > 0 THEN p.frame ELSE NoFrame
                ELSE /\ cur' = [cur EXCEPT !.hdrs =
                             AppendHeaders(@, HPackDecode(p.frame.block).headers)]
                     /\ cont' = p.frame
                     /\ UNCHANGED <<rpc, settings, maxStreamId,
                                    streamHandlers, streamMu, stream, pend,
                                    err, ctxDone>>
    /\ UNCHANGED <<streamEvents, cstate, hsBody, wpc, wsid, goAway,
                   goAwayWritten, Handler, h1, sock>>

\* The socket read fails (the peer closed the connection): handleH2 returns
\* the error, which has no GOAWAY.
ReadFail ==
    /\ UNCHANGED codecVars
    /\ rpc \in {"read", "continuation"}
    /\ UNCHANGED <<settings, maxStreamId, streamHandlers, streamEvents, stream,
                   cstate, hsBody, nread, wpc, wsid, goAway, goAwayWritten, Handler, h1, sock>>
    /\ Return("io")
    /\ cur' = NoFrame
    /\ cont' = NoFrame

\* Connection.writeFrame: the reader enqueues the frame it has pending.  After
\* a GOAWAY, Handle returns, and its deferred function cancels the context.
ReaderWriteFrame ==
    /\ UNCHANGED codecVars
    /\ rpc = "writeFrame"
    /\ Len(streamEvents) < EventQueueCap
    /\ streamEvents' = Append(streamEvents, StreamOutgoingFrameEvent(0, pend))
    /\ goAway' = IF pend.type = FrameGoAway THEN pend ELSE goAway
    /\ UNCHANGED <<settings, maxStreamId, streamHandlers, stream, cstate,
                   hsBody, nread, wpc, wsid, goAwayWritten, Handler, h1, sock>>
    /\ IF pend.type = FrameGoAway
       THEN /\ rpc' = "Wait"
            /\ ctxDone' = TRUE
            /\ cur' = NoFrame
            /\ cont' = NoFrame
            /\ pend' = NoFrame
            /\ UNCHANGED <<streamMu, err>>
       ELSE ToStream(cur) /\ cont' = NoFrame

\* ------------------------------------------------------------------------
\* The stream task: Stream.handleFrames
\* ------------------------------------------------------------------------
\* Stream.goHandle: a new response writer (NewStreamWriter), and the handler
\* task starts.
goHandle(s) ==
    [s EXCEPT !.hpc = "running", !.hi = 1, !.sentHeaders = FALSE,
              !.statusCode = DefaultStatusCode, !.wbuf = <<>>,
              !.closed = FALSE, !.starts = @ + 1]

\* A launch that does not go through the Once.
goHandleAgain(s) == goHandle([s EXCEPT !.handlerDoer = TRUE])

\* s.handlerDoer.Do(s.goHandle)
handlerDoerDo(s) ==
    IF s.handlerDoer THEN s ELSE goHandle([s EXCEPT !.handlerDoer = TRUE])

\* Stream.transition, up to the channel send: the state is set, the event
\* is pending.
transition(s, to) == [s EXCEPT !.state = to, !.pc = "transition"]

\* Stream.handleIdle
handleIdle(s, fr) ==
    IF fr.type = FrameHeaders
    THEN transition([s EXCEPT !.reqHeaders = fr.hdrs, !.es = fr.es],
                    StreamStateOpen)
    ELSE s

\* StreamReader.Write: the payload of fr, the next chunk of the request
\* body, is appended to the buffer.
StreamReaderWrite(s, fr) ==
    [s EXCEPT !.reqbuf = Cat(@, Run(Len(s.accepted) + 1, fr.len)),
              !.accepted = Cat(@, Run(Len(s.accepted) + 1, fr.len))]

\* An open stream that takes the END_STREAM of the peer for its own.
handleOpenLocal(s, fr) ==
    IF fr.type = FrameData
    THEN IF fr.es
         THEN transition([StreamReaderWrite(s, fr) EXCEPT !.eof = TRUE],
                         StreamStateHalfClosedLocal)
         ELSE StreamReaderWrite(s, fr)
    ELSE s

\* Stream.handleOpen
handleOpen(s, fr) ==
    IF fr.type = FrameData
    THEN IF fr.es
         THEN transition([StreamReaderWrite(s, fr) EXCEPT !.eof = TRUE],
                         StreamStateHalfClosedRemote)
         ELSE StreamReaderWrite(s, fr)
    ELSE s

\* A half-closed(remote) stream that ignores what it receives.
IgnoreFrame(s, fr) == s

\* Stream.handleHalfClosedRemote: every frame is answered by streamClosedErr,
\* whose RST_STREAM is pending.
handleHalfClosedRemote(s, fr) == [s EXCEPT !.pc = "writeFrame"]

\* handleFrames, case frame := <-s.incomingQueue
Receive(s, fr) ==
    IF fr.type = FrameRSTStream
    THEN transition(s, StreamStateClosed)
    ELSE CASE s.state = StreamStateIdle -> handleIdle(s, fr)
           [] s.state = StreamStateOpen -> handleOpen(handlerDoerDo(s), fr)
           [] s.state = StreamStateHalfClosedRemote ->
                handleHalfClosedRemote(s, fr)
           [] OTHER -> s

\* handleHandshake, lines 246-270: the next DATA frame of the request body.
BodyFrame(left, maxLen) ==
    LET mx == IF left < maxLen THEN left ELSE maxLen IN
    [Framed(FrameData, 1, mx, {}) EXCEPT !.es = (mx < maxLen)]

\* The unbuffered channel send of sendToStream meets the stream task's
\* receive.  The reader releases the mutex and goes on: in handleH2 to the
\* next frame, in handleHandshake to the next DATA frame of the body, or
\* out of the handshake, after which Handle starts the writer task.
Deliver(sid) ==
    /\ UNCHANGED codecVars
    /\ rpc = "chanSend"
    /\ cur.sid = sid
    /\ stream[sid].pc = "select"
    /\ stream' = [stream EXCEPT ![sid] = Receive(@, cur)]
    /\ IF cstate = "h2"
       THEN /\ streamMu' = "free"
            /\ rpc' = "read"
            /\ cur' = NoFrame
            /\ cont' = NoFrame
            /\ UNCHANGED <<cstate, hsBody, wpc>>
       ELSE IF hsBody = NoBody \/ hsBody = 0
       THEN /\ streamMu' = "free"
            /\ rpc' = "read"
            /\ cur' = NoFrame
            /\ cont' = NoFrame
            /\ cstate' = "h2"
            /\ wpc' = "select"
            /\ hsBody' = NoBody
       ELSE \* sendToStream(1, df): stream 1 is registered, for only the
            \* writer task removes a stream and it has not started
            /\ streamMu' = "reader"
            /\ rpc' = "chanSend"
            /\ cur' = BodyFrame(hsBody, settings.MaxFrameSize)
            /\ UNCHANGED cont
            /\ hsBody' = hsBody - BodyFrame(hsBody, settings.MaxFrameSize).len
            /\ UNCHANGED <<cstate, wpc>>
    /\ UNCHANGED <<settings, maxStreamId, streamHandlers, streamEvents, pend,
                   err, nread, wsid, ctxDone, goAway, goAwayWritten, Handler, h1, sock>>

\* StreamWriter.setDefaultHeaders: the headers of a response whose handler
\* set none, content-type and date (the time of the flush, one value here).
\* They follow :status in the order of a Go map iteration; the model keeps
\* one order.
setDefaultHeaders ==
    <<[Name |-> "content-type", Value |-> "text/plain; charset=utf-8"],
      [Name |-> "date", Value |-> "time.Now()"]>>

\* A HEADERS frame that carries the default status code.
DefaultStatusHeaders(sid, s) ==
    [Framed(FrameHeaders, sid, 0, {})
       EXCEPT !.eh = TRUE, !.es = FALSE,
              !.hdrs = <<[Name |-> ":status",
                          Value |-> Itoa(DefaultStatusCode)]>>
                       \o setDefaultHeaders]

\* StreamWriter.sendData, lines 374-393: the HEADERS frame of the response,
\* with :status first.
ResponseHeaders(sid, s) ==
    [Framed(FrameHeaders, sid, 0, {})
       EXCEPT !.eh = TRUE, !.es = FALSE,
              !.hdrs = <<[Name |-> ":status", Value |-> Itoa(s.statusCode)]>>
                       \o setDefaultHeaders]

\* StreamWriter.sendData, lines 397-409: the DATA frame, with the octets it
\* reads from the buffer.
ResponseData(sid, s, closing) ==
    [Framed(FrameData, sid, BytesLen(Take(s.wbuf, FlushSize)), {})
       EXCEPT !.es = closing, !.data = Take(s.wbuf, FlushSize)]

\* StreamWriter.sendData, up to its next channel send, called by the task
\* whose position is the field task of s ("pc": the stream task, "hpc": the
\* handler task).
sendData(s, task) ==
    [s EXCEPT ![task] = IF s.sentHeaders THEN "sendData" ELSE "sendHeaders"]

\* The frame the pending channel send of sendData carries.
sendDataFrame(sid, s, task, closing) ==
    IF s[task] = "sendHeaders"
    THEN ResponseHeaders(sid, s)
    ELSE ResponseData(sid, s, closing)

\* sendData after that send went through: after the HEADERS, sentHeaders is
\* set and the DATA frame is next; after the DATA, sendData returns.
sendDataSent(sid, s, task, closing) ==
    IF s[task] = "sendHeaders"
    THEN [s EXCEPT !.sentHeaders = TRUE, ![task] = "sendData",
                   !.out = Append(@, ResponseHeaders(sid, s))]
    ELSE [s EXCEPT !.wbuf = Drop(@, FlushSize),
                   !.out = Append(@, ResponseData(sid, s, closing))]

\* streamClosedErr: the RST_STREAM frame.
StreamClosedFrame(sid) ==
    [Framed(FrameRSTStream, sid, 0, {}) EXCEPT !.code = ErrStreamClosed]

\* The event the stream task's pending channel send carries.
PendingEvent(sid, s) ==
    CASE s.pc = "transition" -> StreamTransitionEvent(sid, s.state)
      [] s.pc = "writeFrame" ->
           StreamOutgoingFrameEvent(sid, StreamClosedFrame(sid))
      [] s.pc \in {"sendHeaders", "sendData"} ->
           StreamOutgoingFrameEvent(sid, sendDataFrame(sid, s, "pc", TRUE))

\* The stream task after its pending send went through, up to its next
\* blocking operation.
AfterSend(sid, s) ==
    CASE s.pc = "transition" /\ s.state = StreamStateOpen ->
           \* handleIdle, lines 215-219
           IF s.es
           THEN transition([handlerDoerDo(s) EXCEPT !.eof = TRUE],
                           StreamStateHalfClosedRemote)
           ELSE [handlerDoerDo(s) EXCEPT !.pc = "select"]
      [] s.pc = "transition" /\ s.state = StreamStateClosed ->
           \* handleFrames leaves its loop.  NewStream, lines 141-142: the
           \* task waits for the handler task, which has exited or never
           \* will (nothing receives from handlerDone any more), and then
           \* leaves the connection's wait group.
           [s EXCEPT !.pc = IF s.hpc \in {"none", "exited"}
                            THEN "done"
                            ELSE "handlerWg.Wait"]
      [] s.pc = "transition" -> [s EXCEPT !.pc = "select"]
      [] s.pc = "writeFrame" ->
           \* streamClosedErr, line 254
           transition([s EXCEPT !.out = Append(@, StreamClosedFrame(sid))],
                      StreamStateClosed)
      [] s.pc = "sendHeaders" -> sendDataSent(sid, s, "pc", TRUE)
      [] s.pc = "sendData" ->
           \* handleFrames, line 172
           transition(sendDataSent(sid, s, "pc", TRUE), StreamStateClosed)

\* The stream task's send on streamEvents (Stream.transition,
\* Stream.writeFrame) goes through.
StreamSend(sid) ==
    /\ UNCHANGED codecVars
    /\ stream[sid].pc \in {"transition", "writeFrame", "sendHeaders",
                           "sendData"}
    /\ Len(streamEvents) < EventQueueCap
    /\ streamEvents' = Append(streamEvents, PendingEvent(sid, stream[sid]))
    /\ stream' = [stream EXCEPT ![sid] = AfterSend(sid, @)]
    /\ UNCHANGED <<settings, maxStreamId, streamHandlers, streamMu, cstate,
                   rpc, cur, cont, pend, err, hsBody, nread, wpc, wsid, ctxDone, goAway, goAwayWritten, Handler, h1, sock>>

\* StreamWriter.sendData(true), up to its first channel send.
sendDataClosing(s) == sendData(s, "pc")

\* handleFrames, case <-s.handlerDone: the handler task's send on the
\* unbuffered handlerDone channel meets the stream task's receive.
HandlerDone(sid) ==
    /\ UNCHANGED codecVars
    /\ stream[sid].hpc = "handlerDone"
    /\ stream[sid].pc = "select"
    /\ stream' = [stream EXCEPT
                    ![sid] = sendDataClosing([@ EXCEPT !.hpc = "exited"])]
    /\ UNCHANGED <<settings, maxStreamId, streamHandlers, streamMu,
                   streamEvents, cstate, rpc, cur, cont, pend, err, hsBody, nread,
                   wpc, wsid, ctxDone, goAway, goAwayWritten, Handler, h1, sock>>

\* ------------------------------------------------------------------------
\* The handler task: the function of Stream.goHandle, and the calls of the
\* application handler on its request body and its response writer
\* ------------------------------------------------------------------------
\* The step of the handler task of stream sid that takes its stream record
\* to s.
HandlerStep(sid, s) ==
    /\ stream' = [stream EXCEPT ![sid] = s]
    /\ UNCHANGED <<settings, maxStreamId, streamHandlers, streamMu,
                   streamEvents, cstate, rpc, cur, cont, pend, err, hsBody,
                   nread, wpc, wsid, ctxDone, goAway, goAwayWritten, Handler, h1,
                   sock>>

\* The handler is between two calls and its next call is op.
Calls(s, op) ==
    /\ s.hpc = "running"
    /\ s.hi <= Len(Handler)
    /\ Handler[s.hi].op = op

\* s.handler(s.resbuf, req) returns: the task goes on to its send on
\* handlerDone.
HandlerReturn(sid) ==
    /\ UNCHANGED codecVars
    /\ stream[sid].hpc = "running"
    /\ stream[sid].hi > Len(Handler)
    /\ HandlerStep(sid, [stream[sid] EXCEPT !.hpc = "handlerDone"])

\* StreamWriter.WriteHeader
HandlerWriteHeader(sid) ==
    /\ UNCHANGED codecVars
    /\ Calls(stream[sid], "WriteHeader")
    /\ HandlerStep(sid, [stream[sid] EXCEPT
                           !.statusCode = Handler[stream[sid].hi].n,
                           !.hi = @ + 1])

\* A Read that reports io.EOF as soon as EOF is marked.
EarlyEOFRead(s, n) ==
    [s EXCEPT !.reqbuf = Drop(@, n),
              !.got = Cat(@, Take(s.reqbuf, n)),
              !.gotEOF = s.eof]

\* StreamReader.Read into a slice of n octets.
StreamReaderRead(s, n) ==
    [s EXCEPT !.reqbuf = Drop(@, n),
              !.got = Cat(@, Take(s.reqbuf, n)),
              !.gotEOF = s.eof /\ Drop(s.reqbuf, n) = <<>>]

\* One Read of a handler that reads the body to its end: io.EOF ends the
\* call.  (A Read that finds the buffer empty and no EOF marked returns no
\* octet and changes nothing.)
HandlerRead(sid) ==
    /\ UNCHANGED codecVars
    /\ Calls(stream[sid], "ReadAll")
    /\ stream[sid].reqbuf # <<>> \/ stream[sid].eof
    /\ LET r == StreamReaderRead(stream[sid], Handler[stream[sid].hi].n) IN
       HandlerStep(sid, IF r.gotEOF THEN [r EXCEPT !.hi = @ + 1] ELSE r)

\* A flush loop that runs while the buffer holds the flush size or more.
FlushAtSize(s) ==
    IF BytesLen(s.wbuf) >= FlushSize
    THEN sendData(s, "hpc")
    ELSE [s EXCEPT !.hpc = "running", !.hi = @ + 1,
                   !.werr = Append(@, "nil")]

\* StreamWriter.Write, lines 349-353: the flush loop up to the next channel
\* send, or the return.
WriteLoop(s) ==
    IF BytesLen(s.wbuf) > FlushSize
    THEN sendData(s, "hpc")
    ELSE [s EXCEPT !.hpc = "running", !.hi = @ + 1,
                   !.werr = Append(@, "nil")]

\* StreamWriter.Write of n octets, the hi-th call of the handler.
StreamWriterWrite(s, n) ==
    LET w == [s EXCEPT !.wbuf = Cat(@, Run(s.hi, n)),
                       !.written = Cat(@, Run(s.hi, n))] IN
    IF w.closed
    THEN [w EXCEPT !.hi = @ + 1, !.werr = Append(@, "io.ErrClosedPipe")]
    ELSE WriteLoop(w)

HandlerWrite(sid) ==
    /\ UNCHANGED codecVars
    /\ Calls(stream[sid], "Write")
    /\ HandlerStep(sid, StreamWriterWrite(stream[sid],
                                          Handler[stream[sid].hi].n))

\* The handler task's send on streamEvents (Stream.writeFrame, called by
\* sendData in Write) goes through.
HandlerSend(sid) ==
    /\ UNCHANGED codecVars
    /\ stream[sid].hpc \in {"sendHeaders", "sendData"}
    /\ Len(streamEvents) < EventQueueCap
    /\ streamEvents' =
         Append(streamEvents,
                StreamOutgoingFrameEvent(
                    sid, sendDataFrame(sid, stream[sid], "hpc", FALSE)))
    /\ stream' = [stream EXCEPT ![sid] =
                    IF @.hpc = "sendHeaders"
                    THEN sendDataSent(sid, @, "hpc", FALSE)
                    ELSE WriteLoop(sendDataSent(sid, @, "hpc", FALSE))]
    /\ UNCHANGED <<settings, maxStreamId, streamHandlers, streamMu, cstate,
                   rpc, cur, cont, pend, err, hsBody, nread, wpc, wsid,
                   ctxDone, goAway, goAwayWritten, Handler, h1, sock>>

\* ------------------------------------------------------------------------
\* The writer task: Connection.handleStreamEvents
\* ------------------------------------------------------------------------
\* Connection.closeStream, with the mutex held.
closeStream(sid) == streamHandlers' = streamHandlers \ {sid}

\* case event := <-c.streamEvents.  A frame is encoded and written to the
\* socket; a transition to closed removes the stream from the registry, for
\* which the writer needs the registry mutex.
WriterEvent ==
    /\ UNCHANGED codecVars
    /\ wpc = "select"
    /\ streamEvents # <<>>
    /\ streamEvents' = Tail(streamEvents)
    /\ LET event == Head(streamEvents) IN
       IF event.ev = "frame"
       THEN /\ goAwayWritten' =
                 (goAwayWritten
                  \/ (event.Frame.type = FrameGoAway /\ event.Frame = goAway))
            /\ sock' = Write1(Encoded(event.Frame))
            /\ UNCHANGED <<streamHandlers, wpc, wsid>>
       ELSE IF event.ToState = StreamStateClosed
       THEN IF streamMu = "free"
            THEN /\ closeStream(event.StreamID)
                 /\ UNCHANGED <<wpc, wsid, goAwayWritten, sock>>
            ELSE /\ wpc' = "closeStream"
                 /\ wsid' = event.StreamID
                 /\ UNCHANGED <<streamHandlers, goAwayWritten, sock>>
       ELSE UNCHANGED <<streamHandlers, wpc, wsid, goAwayWritten, sock>>
    /\ UNCHANGED <<settings, maxStreamId, streamMu, stream, cstate, rpc, cur,
                   cont, pend, err, hsBody, nread, ctxDone, goAway, Handler, h1>>

\* closeStream gets the mutex it was waiting for.
WriterCloseStream ==
    /\ UNCHANGED codecVars
    /\ wpc = "closeStream"
    /\ streamMu = "free"
    /\ closeStream(wsid)
    /\ wpc' = "select"
    /\ wsid' = 0
    /\ UNCHANGED <<settings, maxStreamId, streamMu, streamEvents, stream,
                   cstate, rpc, cur, cont, pend, err, hsBody, nread, ctxDone, goAway, goAwayWritten, Handler, h1, sock>>

\* case <-ctx.Done(): the writer returns.  When events are queued as well,
\* Go's select takes either case.
WriterCancelled ==
    /\ UNCHANGED codecVars
    /\ wpc = "select"
    /\ ctxDone
    /\ wpc' = "done"
    /\ UNCHANGED <<settings, maxStreamId, streamHandlers, streamMu,
                   streamEvents, stream, cstate, rpc, cur, cont, pend, err, hsBody,
                   nread, wsid, ctxDone, goAway, goAwayWritten, Handler, h1, sock>>

\* ------------------------------------------------------------------------
\* The handshake and the end of Handle
\* ------------------------------------------------------------------------
\* handleHandshake fails (UnmarshalReader fails, or the upgrade headers are
\* missing or wrong): Handle returns before it starts the writer.
HandshakeFails ==
    /\ UNCHANGED codecVars
    /\ rpc = "handshake"
    /\ \E req \in Requests :
         /\ handleHandshakeError(req) # "nil"
         /\ h1' = req
         /\ err' = handleHandshakeError(req)
    /\ rpc' = "Wait"
    /\ ctxDone' = TRUE
    /\ UNCHANGED <<settings, maxStreamId, streamHandlers, streamMu,
                   streamEvents, stream, cstate, cur, cont, pend, hsBody, nread,
                   wpc, wsid, goAway, goAwayWritten, Handler, sock>>

\* handleHandshake, lines 173-184: the request line of the client preface.
\* The reader writes the initial SETTINGS; Handle starts the writer task.
HandshakePRI ==
    /\ UNCHANGED codecVars
    /\ rpc = "handshake"
    /\ \E req \in Requests :
         /\ handleHandshakeError(req) = "nil"
         /\ req.Method = "PRI"
         /\ h1' = req
    /\ cstate' = "h2"
    /\ wpc' = "select"
    /\ rpc' = "read"
    /\ sock' = Write1(Encoded(initSettings))
    /\ UNCHANGED <<settings, maxStreamId, streamHandlers, streamMu,
                   streamEvents, stream, cur, cont, pend, err, hsBody, nread,
                   wsid, ctxDone, goAway, goAwayWritten, Handler>>

\* handleHandshake, lines 186-244: an HTTP/1.1 upgrade request with the
\* HTTP2-Settings payload and the body given.  The reader applies the
\* settings, writes the 101 response and the initial SETTINGS, creates stream
\* 1 and, in sendToStream, takes the registry mutex to hand it the request's
\* HEADERS.
HandshakeUpgrade ==
    /\ UNCHANGED codecVars
    /\ rpc = "handshake"
    /\ \E req \in Requests :
         /\ handleHandshakeError(req) = "nil"
         /\ req.Method # "PRI"
         /\ h1' = req
         /\ settings' = ApplyArgs(settings, DecodeArgs(req.settings.payload))
         /\ hsBody' = req.Body
         /\ cur' = [Framed(FrameHeaders, 1, 0, {})
                      EXCEPT !.es = (req.Body = NoBody), !.eh = TRUE,
                             !.hdrs = <<":method">>]
    /\ newStream(1)
    /\ streamMu' = "reader"
    /\ rpc' = "chanSend"
    /\ nread' = nread + 1
    /\ sock' = Append(Write1(SwitchingProtocols), Encoded(initSettings))
    /\ UNCHANGED <<streamEvents, cstate, cont, pend, err, wpc, wsid, ctxDone,
                   goAway, goAwayWritten, Handler>>

\* Handle's deferred function, lines 125-129: the wait group is released by
\* the writer task and by every stream task; then the event channel and the
\* socket are closed.  A panic goes on to end the process.
ConnClose ==
    /\ UNCHANGED codecVars
    /\ rpc = "Wait"
    /\ wpc \in {"notstarted", "done"}
    /\ \A sid \in Streams : stream[sid].pc \in {"none", "done"}
    /\ rpc' = IF err = "panic" THEN "crashed" ELSE "closed"
    /\ UNCHANGED <<settings, maxStreamId, streamHandlers, streamMu,
                   streamEvents, stream, cstate, cur, cont, pend, err, hsBody,
                   nread, wpc, wsid, ctxDone, goAway, goAwayWritten, Handler, h1, sock>>

Next ==
    \/ HandshakeFails
    \/ HandshakePRI
    \/ HandshakeUpgrade
    \/ ReadFrame
    \/ ReadContinuation
    \/ ReadFail
    \/ ReaderWriteFrame
    \/ \E sid \in Streams : Deliver(sid)
    \/ \E sid \in Streams : StreamSend(sid)
    \/ \E sid \in Streams : HandlerReturn(sid)
    \/ \E sid \in Streams : HandlerDone(sid)
    \/ WriterEvent
    \/ WriterCloseStream
    \/ WriterCancelled
    \/ ConnClose

Spec == Init /\ [][Next]_vars

\* A prior-knowledge connection whose peer makes one request, on stream 1,
\* and whose handler reads the request body and writes a response.  (The
\* writer never gets the registry mutex it waits for in closeStream: the
\* reader holds it only to hand a frame to stream 1, and a stream that has
\* announced its closing takes no frame.)
HandlerNext ==
    \/ HandshakePRI
    \/ ReadStreamFrame
    \/ ReadFail
    \/ ReaderWriteFrame
    \/ \E sid \in Streams : Deliver(sid)
    \/ \E sid \in Streams : StreamSend(sid)
    \/ \E sid \in Streams : HandlerRead(sid)
    \/ \E sid \in Streams : HandlerWriteHeader(sid)
    \/ \E sid \in Streams : HandlerWrite(sid)
    \/ \E sid \in Streams : HandlerSend(sid)
    \/ \E sid \in Streams : HandlerReturn(sid)
    \/ \E sid \in Streams : HandlerDone(sid)
    \/ WriterEvent
    \/ WriterCancelled
    \/ ConnClose

HandlerSpec == HandlerInit /\ [][HandlerNext]_vars

\* A prior-knowledge connection whose peer keeps the connection busy: it
\* makes a request without body on each client stream, sends BusyPings PING
\* frames and then a WINDOW_UPDATE frame on the last client stream; it does
\* not hang up.  The handler returns at once.
BusyPings == 4
BusyScript ==
    [i \in 1 .. Cardinality(Streams) |->
       Headers(2 * i - 1, SmallLen, {HeadersEndHeaders, HeadersEndStream}, "a")]
    \o [i \in 1 .. BusyPings |-> Ping(0, {}, "p1")]
    \o <<Framed(FrameWindowUpdate, MaxStreamId, SmallLen, {})>>

\* The peer sends the next frame.
ReadBusyFrame == ReadFrameOf({BusyScript[nread + 1]}, Len(BusyScript))

BusyNext ==
    \/ HandshakePRI
    \/ ReadBusyFrame
    \/ ReaderWriteFrame
    \/ \E sid \in Streams : Deliver(sid)
    \/ \E sid \in Streams : StreamSend(sid)
    \/ \E sid \in Streams : HandlerReturn(sid)
    \/ \E sid \in Streams : HandlerDone(sid)
    \/ WriterEvent
    \/ WriterCloseStream
    \/ WriterCancelled
    \/ ConnClose

BusySpec == Init /\ [][BusyNext]_vars

\* ------------------------------------------------------------------------
\* The codecs under test
\* ------------------------------------------------------------------------
\* The variables of the connection, which no call to the codecs touches.
connVars ==
    <<settings, maxStreamId, streamHandlers, streamMu, streamEvents, stream,
      cstate, rpc, cur, cont, pend, err, hsBody, nread, wpc, wsid, ctxDone,
      goAway, goAwayWritten, Handler, h1, sock>>

\* The string of n octets c.
Rep(c, n) == [k \in 1..n |-> c]

RECURSIVE Times(_, _)
\* The block b, n times over.
Times(b, n) == IF n = 0 THEN <<>> ELSE b \o Times(b, n - 1)

\* Lengths of the strings of the header lists: the longest whose length
\* takes one octet, the shortest whose length takes two, and one whose
\* length takes three.
MaxShort == 126
MinLong == 127
LongLen == 300
\* Number of headers of a header list.
MaxHeaders == 2
\* Number of entries of the dynamic table above which the model makes no
\* call that inserts.
MaxEntries == 3
\* Number of insertions that exceed the default maximum size with entries
\* of 284 octets (a name and a value of MaxShort octets).
ManyEntries == 15

\* The strings "a" and "v", and their octets.
StrA == <<97>>
StrV == <<118>>
OctetA == StrA[1]
OctetV == StrV[1]

HeaderNames == {<<OctetA>>, Rep(OctetA, MaxShort), Rep(OctetA, MinLong)}
HeaderValues ==
    {<<>>, <<OctetV>>, Rep(OctetV, MinLong), Rep(OctetV, LongLen)}
EncodedHeaders ==
    {NewHeader(n, v) : n \in HeaderNames, v \in HeaderValues}
HeaderLists ==
    UNION {[1..n -> EncodedHeaders] : n \in 0..MaxHeaders}

\* Header blocks given to the decoder.
\*   82                      indexed field, index 2
\*   be                      indexed field, index 62
\*   ff 00                   indexed field, index 127
\*   40 01 61 01 76          incremental indexing, new name: "a": "v"
\*   41 01 76                incremental indexing, name index 1, value "v"
\*   00 01 61 01 76          without indexing, new name
\*   10 01 61 01 76          never indexed, new name
\*   04 01 76                without indexing, name index 4, value "v"
\*   0f 0d 05 34 39 31 33 37 without indexing, name index 28 (15 + 13),
\*                           value "49137"
\*   0f 0d 84 69 f0 b2 ef    the same with a Huffman-coded value
\*   7f 00 01 76             incremental indexing, name index 63 (63 + 0)
\*   20                      dynamic table size update
\*   20 82                   size update to 0, then an indexed field
\*   3f 09 82                size update to 40 (31 + 9), then an indexed
\*                           field
\*   40 05 61                a string literal cut short
\*   ManyEntries times 40 7e "a..a" 7e "v..v", incremental indexing with
\*                           a name and a value of MaxShort octets
IncrementalAV == <<64, 1, OctetA, 1, OctetV>>
IncrementalLong ==
    <<64, MaxShort>> \o Rep(OctetA, MaxShort)
                    \o <<MaxShort>> \o Rep(OctetV, MaxShort)
ContentLength49137 == <<15, 13, 5, 52, 57, 49, 51, 55>>
ContentLengthHuffman == <<15, 13, 132, 105, 240, 178, 239>>
DecodeInputs ==
    {<<130>>, <<190>>, <<255, 0>>, IncrementalAV, <<65, 1, OctetV>>,
     <<0, 1, OctetA, 1, OctetV>>, <<16, 1, OctetA, 1, OctetV>>,
     <<4, 1, OctetV>>, ContentLength49137, ContentLengthHuffman,
     <<127, 0, 1, OctetV>>, <<32>>, <<32, 130>>, <<63, 9, 130>>,
     <<64, 5, OctetA>>,
     IncrementalAV \o <<130>> \o IncrementalAV,
     Times(IncrementalLong, ManyEntries)}

\* Maximum sizes given to UpdateMaxSize: none, one entry of 34 octets, two
\* such entries and the default.
TableSizes == {0, 40, 70, DefaultMaxSize}

\* A call that faulted or hangs ends the program.
Faulted == call.out.err \in {"panic", "hang"}

\* HPackDecoder.Decode on a header block.
CallDecode ==
    /\ ~Faulted
    /\ Len(indexTable.dynamicTable) < MaxEntries
    /\ \E bs \in DecodeInputs :
         call' = [op |-> "Decode", in |-> bs,
                  out |-> HPackDecoderDecode(indexTable, bs)]
    /\ indexTable' = call'.out.indexTable
    /\ UNCHANGED connVars

\* HPackEncoder.Encode on a header list, and HPackDecoder.Decode of a
\* decoder that has decoded nothing yet on what it returned.
CallEncodeDecode ==
    /\ ~Faulted
    /\ indexTable = NewIndexTable
    /\ \E headers \in HeaderLists :
         call' = [op |-> "EncodeDecode", in |-> headers,
                  out |-> HPackDecoderDecode(indexTable,
                                             HPackEncoderEncode(headers))]
    /\ indexTable' = call'.out.indexTable
    /\ UNCHANGED connVars

\* indexTable.Add
CallAdd ==
    /\ ~Faulted
    /\ Len(indexTable.dynamicTable) < MaxEntries
    /\ \E header \in {H(<<OctetA>>, <<OctetV>>), H(<<OctetV>>, <<OctetA>>)} :
         /\ indexTable' = Add(indexTable, header)
         /\ call' = [op |-> "Add", in |-> header,
                     out |-> [err |-> IF indexTable'.panic
                                      THEN "panic" ELSE "nil"]]
    /\ UNCHANGED connVars

\* indexTable.UpdateMaxSize
CallUpdateMaxSize ==
    /\ ~Faulted
    /\ \E size \in TableSizes :
         /\ indexTable' = UpdateMaxSize(indexTable, size)
         /\ call' = [op |-> "UpdateMaxSize", in |-> size,
                     out |-> [err |-> IF indexTable'.panic
                                      THEN "panic" ELSE "nil"]]
    /\ UNCHANGED connVars

\* The frames given to Encode: each supported type, DATA with and without
\* END_STREAM, HEADERS with and without PADDED and PRIORITY, SETTINGS with
\* no entry, one entry and two, PING with and without ACK, WINDOW_UPDATE
\* for the connection and for a stream.
FragmentLen == 2
PadLen == 2
SomeWeight == 15
SomeFragments == {<<>>, [k \in 1..FragmentLen |-> 130]}
SomeOpaque == [k \in 1..8 |-> k]
SomeArgs ==
    {<<>>,
     <<[Param |-> SettingsInitialWindowSize, Value |-> 65535]>>,
     <<[Param |-> SettingsEnablePush, Value |-> 0],
       [Param |-> SettingsMaxFrameSize, Value |-> 16384]>>}
EncodedFrames ==
    {[TypedFrame(FrameData, 1) EXCEPT !.EndStream = es, !.Data = d] :
        es \in BOOLEAN, d \in SomeFragments}
    \cup {[TypedFrame(FrameHeaders, 1) EXCEPT
             !.EndStream = es, !.EndHeaders = eh, !.Padded = pad,
             !.PadLength = IF pad THEN PadLen ELSE 0,
             !.Priority = pri,
             !.StreamDependency = IF pri THEN 3 ELSE 0,
             !.ExclusiveStreamDep = pri /\ es,
             !.Weight = IF pri THEN SomeWeight ELSE 0,
             !.BlockFragment = d] :
            es \in BOOLEAN, eh \in BOOLEAN, pad \in BOOLEAN,
            pri \in BOOLEAN, d \in SomeFragments}
    \cup {[TypedFrame(FrameRSTStream, 1) EXCEPT !.ErrorCode = c] :
            c \in {0, ErrStreamClosed, ErrHTTP11Required}}
    \cup {[TypedFrame(FrameSettings, 0) EXCEPT !.Args = a] : a \in SomeArgs}
    \cup {[TypedFrame(FrameSettings, 0) EXCEPT !.Ack = TRUE]}
    \cup {[TypedFrame(FramePing, 0) EXCEPT !.Ack = a, !.Opaque = SomeOpaque] :
            a \in BOOLEAN}
    \cup {[TypedFrame(FrameGoAway, 0) EXCEPT
             !.LastStreamID = l, !.ErrorCode = c, !.Opaque = o] :
            l \in {0, 3}, c \in {0, ErrProtocolError},
            o \in {<<>>, <<1>>}}
    \cup {[TypedFrame(FrameWindowUpdate, sid) EXCEPT !.SizeIncrement = n] :
            sid \in {0, 1}, n \in {1, 65535}}
    \cup {[TypedFrame(FrameContinuation, 1) EXCEPT
             !.EndHeaders = eh, !.BlockFragment = d] :
            eh \in BOOLEAN, d \in SomeFragments}

\* A frame's Encode, and ParseFrame on what it returned.
CallEncodeParse ==
    /\ ~Faulted
    /\ \E f \in EncodedFrames :
         call' = [op |-> "EncodeParse", in |-> f,
                  out |-> ParseFrameOctets(FrameEncode(f),
                                           DefaultMaxFrameSize)]
    /\ UNCHANGED indexTable
    /\ UNCHANGED connVars

\* The prefix widths and the values given to encodeInt: for a prefix of N
\* bits, the values around 2^N - 1, those whose continuation takes one, two
\* and three octets, and the largest value below 2^31.
Prefixes == {4, 5, 6, 7}
MaxValue == (Pow2(30) - 1) + Pow2(30)
IntValues(prefix) ==
    {0, 1, Pow2(prefix) - 2, Pow2(prefix) - 1, Pow2(prefix),
     Pow2(prefix) - 1 + 127, Pow2(prefix) - 1 + 128,
     Pow2(prefix) - 1 + 16383, Pow2(prefix) - 1 + 16384, 65535, MaxValue}

\* What decInt returned.
IntDecoded(d) ==
    [err |-> IF d.panic THEN "panic" ELSE "nil", i |-> d.i, bs |-> d.bs]

\* encodeInt on a value, and decInt on what it returned.
CallEncodeInt ==
    /\ ~Faulted
    /\ indexTable = NewIndexTable
    /\ \E prefix \in Prefixes :
         \E num \in IntValues(prefix) :
           call' = [op |-> "EncodeInt",
                    in |-> [prefix |-> prefix, num |-> num,
                            octets |-> encodeInt(0, prefix, num)],
                    out |-> IntDecoded(decInt(encodeInt(0, prefix, num),
                                              prefix))]
    /\ UNCHANGED indexTable
    /\ UNCHANGED connVars

RECURSIVE DecodePayload(_, _)
\* ConnectionSettings.DecodePayload: the entries of an HTTP2-Settings
\* payload, applied one by one; the identifier is converted to SettingsParam
\* as in SettingsFrame.Decode.  The result is the settings, or a fault when
\* fewer than six octets are left.
DecodePayload(s, bs) ==
    IF bs = <<>> THEN [settings |-> s, panic |-> FALSE]
    ELSE IF Len(bs) < 6 THEN [settings |-> s, panic |-> TRUE]
    ELSE DecodePayload(SetValue(s, Uint16(bs) % 256, Uint32(From(bs, 2))),
                       From(bs, 6))

\* The identifiers of the SETTINGS entries given to the decoders: the known
\* ones (1..6), 0, 7 and 255, the same with 01 as the high octet (0x0100 ..
\* 0x0107), and 0xff05; and their values, none of which is a default.
WideIdent == Pow2(8)
SettingsIdents ==
    (0 .. 7) \cup {255} \cup {WideIdent + k : k \in 0 .. 7}
    \cup {255 * WideIdent + SettingsMaxFrameSize}
SettingsValues == {0, 100}

\* The six octets of a SETTINGS entry on the wire.
SettingsEntry(ident, value) ==
    <<ident \div WideIdent, ident % WideIdent>> \o AppendUint32(value)

\* A SETTINGS entry decoded and applied to the initial settings, as a frame
\* (SettingsFrame.Decode, then handleH2's loop over SetValue) and as an
\* HTTP2-Settings payload (DecodePayload).
SettingsApplied(bs) ==
    [err |-> IF SettingsArgs(bs).panic \/ DecodePayload(NewSettings, bs).panic
             THEN "panic" ELSE "nil",
     frame |-> ApplyArgs(NewSettings, SettingsArgs(bs).Args),
     upgrade |-> DecodePayload(NewSettings, bs).settings]

CallSettings ==
    /\ ~Faulted
    /\ indexTable = NewIndexTable
    /\ \E ident \in SettingsIdents :
         \E value \in SettingsValues :
           call' = [op |-> "Settings",
                    in |-> [ident |-> ident, value |-> value,
                            octets |-> SettingsEntry(ident, value)],
                    out |-> SettingsApplied(SettingsEntry(ident, value))]
    /\ UNCHANGED indexTable
    /\ UNCHANGED connVars

CodecInit == Constructed /\ Handler = NoCalls

CodecNext ==
    \/ CallDecode
    \/ CallEncodeDecode
    \/ CallAdd
    \/ CallUpdateMaxSize
    \/ CallEncodeParse
    \/ CallEncodeInt
    \/ CallSettings

CodecSpec == CodecInit /\ [][CodecNext]_vars

\* ------------------------------------------------------------------------
\* Properties
\* ------------------------------------------------------------------------
\* readFrame returned the frame f: it has a type with a parser and passed
\* the length check.
Returned(f) ==
    /\ f.type \in frameParsers
    /\ ~(f.type \in {FrameData, FrameHeaders} /\ f.len > settings.MaxFrameSize)

\* The reader has stopped reading frames.
ReaderStopped == rpc \in {"Wait", "closed", "crashed"}

\* The reader's pending frame is the GOAWAY with this error code, and all
\* that is left for the reader to do is to enqueue it.
GoAwayPending(code) ==
    /\ rpc = "writeFrame"
    /\ pend = GoAwayFrame(maxStreamId, code)

\* A step of the reader that leaves "writeFrame" with a GOAWAY pending
\* appends that GOAWAY to the event queue and stops the reader.
GoAwayEnqueued ==
    (rpc = "writeFrame" /\ pend.type = FrameGoAway /\ rpc' # "writeFrame")
        => /\ streamEvents' =
                Append(streamEvents, StreamOutgoingFrameEvent(0, pend))
           /\ rpc' = "Wait"
           /\ stream' = stream

\* C1: a frame that readFrame returns with an even stream id above 0 is
\* handed to no stream: the reader's one remaining step enqueues a GOAWAY
\* with PROTOCOL_ERROR, after which the reader has stopped for good.
C1_EvenStreamIdFailsConnection ==
    /\ []((cur.sid > 0 /\ cur.sid % 2 = 0 /\ Returned(cur))
            => /\ GoAwayPending(ErrProtocolError)
               /\ err = ErrConnProtocolError)
    /\ [][GoAwayEnqueued]_vars
    /\ [][ReaderStopped => ReaderStopped']_vars

\* C1, witness: a HEADERS frame on stream 2 was read and its GOAWAY is
\* pending.
C1_Witness ==
    /\ cur.type = FrameHeaders
    /\ cur.sid = 2
    /\ GoAwayPending(ErrProtocolError)

\* C2: when the connection is closed after the reader enqueued a GOAWAY, the
\* writer has written that GOAWAY (and with it every event queued before
\* it) to the socket.
C2_GoAwayWrittenBeforeClose ==
    (rpc = "closed" /\ goAway # NoFrame) => goAwayWritten

\* The GOAWAY code the connection owes a frame for stream sid that has no
\* registry entry.
UnknownStreamCode(sid) ==
    IF sid <= maxStreamId THEN ErrStreamClosed ELSE ErrProtocolError

\* C3: a frame with an odd stream id whose stream is not in the registry when
\* the reader looks it up is handed to no stream, and the reader's GOAWAY
\* carries STREAM_CLOSED when the id is at most the highest id seen and
\* PROTOCOL_ERROR when it is greater.  (The first conjunct is about every
\* frame the reader holds for a stream; the second about the frames that go
\* to the lookup in the step that reads them.)
C3_UnknownStreamFailsConnection ==
    /\ []((cur.sid % 2 = 1 /\ Returned(cur) /\ cont = NoFrame
           /\ rpc \in {"chanSend", "writeFrame"}
           /\ (rpc = "writeFrame" => pend.type = FrameGoAway))
            => IF cur.sid \in streamHandlers
               THEN rpc = "chanSend"
               ELSE GoAwayPending(UnknownStreamCode(cur.sid)))
    /\ [][(rpc = "read" /\ nread' # nread /\ cur'.sid % 2 = 1
           /\ cur'.type \in {FrameData, FrameRSTStream, FrameWindowUpdate,
                             FrameGoAway, FrameContinuation}
           /\ cur'.len <= settings.MaxFrameSize
           /\ cur'.sid \notin streamHandlers)
            => /\ rpc' = "writeFrame"
               /\ pend' = GoAwayFrame(maxStreamId,
                                      UnknownStreamCode(cur'.sid))]_vars

\* C3, witness: a DATA frame for stream 1, which was opened and has been
\* removed from the registry, has the GOAWAY with STREAM_CLOSED pending.
C3_Witness ==
    /\ cur.type = FrameData
    /\ cur.sid = 1
    /\ maxStreamId >= 1
    /\ 1 \notin streamHandlers
    /\ GoAwayPending(ErrStreamClosed)

\* C4: while a header block is open (a HEADERS without END_HEADERS was read
\* on stream s), a frame that readFrame hands over and that is no
\* CONTINUATION on s makes the reader's next step the GOAWAY with
\* PROTOCOL_ERROR, with the HEADERS handed to no stream; a CONTINUATION on s
\* whose fragment decodes appends its headers to the HEADERS, and with
\* END_HEADERS the HEADERS, END_HEADERS set, goes to its stream if that is
\* registered.  A HEADERS is handed to a stream only with END_HEADERS set,
\* and an idle stream that takes it stores its header list.
C4_HeaderBlockAssembly ==
    /\ []((rpc = "chanSend" /\ cur.type = FrameHeaders) => cur.eh)
    /\ [][(rpc = "continuation" /\ nread' # nread /\ cont' # NoFrame
           /\ ~(cont'.type \in {FrameData, FrameHeaders}
                /\ cont'.len > settings.MaxFrameSize))
            => IF cont'.type # FrameContinuation \/ cont'.sid # cur.sid
               THEN /\ rpc' = "writeFrame"
                    /\ pend' = GoAwayFrame(maxStreamId, ErrProtocolError)
                    /\ cur' = cur
                    /\ stream' = stream
               ELSE /\ cur' = [cur EXCEPT
                                 !.hdrs = @ \o <<cont'.block>>,
                                 !.eh = hasFlag(cont', ContinuationEndHeaders)]
                    /\ IF hasFlag(cont', ContinuationEndHeaders)
                       THEN cur.sid \in streamHandlers' => rpc' = "chanSend"
                       ELSE rpc' = "continuation"]_vars
    /\ [][(rpc = "chanSend" /\ cur.type = FrameHeaders /\ cur' # cur
           /\ stream[cur.sid].state = StreamStateIdle)
            => stream'[cur.sid].reqHeaders = cur.hdrs]_vars

\* C4, witness: a stream has taken a HEADERS whose header list is that of
\* the HEADERS frame followed by that of its CONTINUATION.
C4_Witness ==
    \E sid \in Streams : stream[sid].reqHeaders = <<"a", "b">>

\* C5: a DATA or HEADERS frame longer than the current MaxFrameSize is never
\* held for delivery: once it is read, the reader's one remaining step
\* enqueues a GOAWAY with FRAME_SIZE_ERROR.
C5_OversizeFrameFailsConnection ==
    /\ [](\A f \in {cur, cont} :
            (f.type \in {FrameData, FrameHeaders}
             /\ f.len > settings.MaxFrameSize)
              => /\ GoAwayPending(ErrFrameSizeError)
                 /\ err = ErrExceedsMaxFrameSize)
    /\ [][(rpc = "writeFrame" /\ pend.type = FrameGoAway
           /\ pend.code = ErrFrameSizeError /\ rpc' # "writeFrame")
            => /\ streamEvents' =
                    Append(streamEvents, StreamOutgoingFrameEvent(0, pend))
               /\ ReaderStopped'
               /\ stream' = stream]_vars

\* C5, witness: a HEADERS frame of more than MaxFrameSize octets was read
\* and the GOAWAY with FRAME_SIZE_ERROR is pending.
C5_Witness ==
    /\ cur.type = FrameHeaders
    /\ cur.len > settings.MaxFrameSize
    /\ GoAwayPending(ErrFrameSizeError)

\* C6: a frame of a type without a parser that the reader reads at the top
\* of its loop is skipped: the reader does not fault, nothing is cancelled
\* and no GOAWAY is pending.
C6_UnknownFrameSkipped ==
    (cur # NoFrame /\ cur.type \notin frameParsers)
        => /\ err = "nil"
           /\ ~ctxDone
           /\ pend = NoFrame
           /\ ~ReaderStopped

\* C7: a stream in state open or half-closed(remote) that takes a
\* WINDOW_UPDATE frame keeps its state and has no RST_STREAM to send.
C7_WindowUpdateIgnored ==
    [][(rpc = "chanSend" /\ cur.type = FrameWindowUpdate /\ cur' # cur
        /\ stream[cur.sid].state \in {StreamStateOpen,
                                      StreamStateHalfClosedRemote})
         => /\ stream'[cur.sid].state = stream[cur.sid].state
            /\ stream'[cur.sid].pc = "select"]_vars

\* C8: a PING frame with ACK cleared has the reader enqueue a PING with ACK
\* set and the same opaque payload; a PING frame with ACK set has the reader
\* enqueue nothing.
C8_PingAnswered ==
    (cur.type = FramePing /\ ~(cur.sid > 0 /\ cur.sid % 2 = 0))
        => IF PingAck \in cur.flags
           THEN rpc # "writeFrame" /\ pend = NoFrame
           ELSE rpc = "writeFrame"
                  => /\ pend.type = FramePing
                     /\ pend.ack
                     /\ pend.opaque = cur.opaque

\* The value a setting has after the entries args, sent in this order, when
\* it was old before: that of the last entry for the identifier ident.
AfterEntries(args, ident, old) ==
    LET at == {i \in 1 .. Len(args) : args[i].Param = ident} IN
    IF at = {}
    THEN old
    ELSE args[CHOOSE i \in at : \A j \in at : j <= i].Value

\* C9: a SETTINGS frame without ACK, on stream 0 or a client stream, has its
\* entries applied in order (the last entry for an identifier decides) and
\* makes the reader's next step the enqueuing of an empty SETTINGS with ACK
\* set; nothing else changes a setting after the handshake or has the reader
\* enqueue a SETTINGS, so a SETTINGS frame with ACK set does neither.
C9_SettingsApplied ==
    /\ [][(rpc = "read" /\ nread' # nread /\ cur'.type = FrameSettings
           /\ ~(cur'.sid > 0 /\ cur'.sid % 2 = 0))
            => IF SettingsAck \in cur'.flags
               THEN /\ settings' = settings
                    /\ pend'.type # FrameSettings
               ELSE /\ settings' =
                         [settings EXCEPT !.MaxFrameSize =
                            AfterEntries(cur'.args, SettingsMaxFrameSize, @)]
                    /\ rpc' = "writeFrame"
                    /\ pend' = [Framed(FrameSettings, 0, 0, {})
                                  EXCEPT !.ack = TRUE]]_vars
    /\ [][(rpc # "handshake"
           /\ (settings' # settings
               \/ (pend' # pend /\ pend'.type = FrameSettings)))
            => /\ rpc = "read"
               /\ cur'.type = FrameSettings
               /\ SettingsAck \notin cur'.flags]_vars

\* C9, witness: a SETTINGS frame of two entries for MaxFrameSize was applied
\* to a raised MaxFrameSize, the second entry deciding, and its
\* acknowledgement is pending.
C9_Witness ==
    /\ cur.type = FrameSettings
    /\ Len(cur.args) = 2
    /\ nread = 2
    /\ settings.MaxFrameSize = DefaultMaxFrameSize
    /\ rpc = "writeFrame"
    /\ pend.type = FrameSettings

\* C10: the handler of a stream is started at most once; it has been started
\* only if the stream took a HEADERS frame in idle, and it has been started
\* once the stream has announced the transition to open that this HEADERS
\* caused.
C10_HandlerStartedOnce ==
    \A sid \in Streams :
      LET s == stream[sid] IN
      /\ s.starts <= 1
      /\ s.starts = 1 => (s.state # StreamStateIdle /\ s.reqHeaders # <<>>)
      /\ (s.state # StreamStateIdle
          /\ ~(s.state = StreamStateOpen /\ s.pc = "transition"))
           => s.starts = 1

\* C10, witness: a stream whose handler was started has since taken a DATA
\* frame in state open.
C10_Witness ==
    \E sid \in Streams :
      /\ stream[sid].starts = 1
      /\ stream[sid].reqbuf # <<>>
      /\ ~stream[sid].eof

RECURSIVE IsPrefix(_, _)
\* The octet string a is a prefix of the octet string b.
IsPrefix(a, b) ==
    \/ a = <<>>
    \/ /\ b # <<>>
       /\ a[1].tag = b[1].tag
       /\ \/ a[1].n = b[1].n /\ IsPrefix(Tail(a), Tail(b))
          \/ a[1].n < b[1].n /\ Len(a) = 1

\* C11: what the handler's reads of the request body have returned is a
\* prefix of the payloads of the DATA frames the stream accepted in state
\* open, in their order; a read has reported end-of-stream only if
\* END_STREAM was received and the reads have returned all of it; what was
\* read and what is queued are together what was accepted; the accepted
\* payloads grow, and only by the payload of a DATA frame taken in
\* state open; END_STREAM is marked only for a DATA or HEADERS frame that
\* carries it; and a handler reading a body whose END_STREAM is marked can
\* make its next read.
C11_BodyReads ==
    /\ [](\A sid \in Streams :
            LET s == stream[sid] IN
            /\ IsPrefix(s.got, s.accepted)
            /\ Cat(s.got, s.reqbuf) = s.accepted
            /\ s.gotEOF => (s.eof /\ s.got = s.accepted
                              /\ s.state \in {StreamStateHalfClosedRemote,
                                               StreamStateClosed})
            /\ (Calls(s, "ReadAll") /\ s.eof) => ENABLED HandlerRead(sid))
    /\ [][\A sid \in Streams :
            LET s == stream[sid] IN
            /\ s.accepted # stream'[sid].accepted
                 => /\ rpc = "chanSend" /\ cur.sid = sid
                    /\ cur.type = FrameData
                    /\ s.state = StreamStateOpen
                    /\ stream'[sid].accepted =
                         s.accepted \o <<[tag |-> Len(s.accepted) + 1,
                                          n |-> cur.len]>>
            /\ (rpc = "chanSend" /\ cur.sid = sid /\ cur.type = FrameData
                /\ s.state = StreamStateOpen /\ cur' # cur)
                 => BytesLen(stream'[sid].accepted) =
                      BytesLen(s.accepted) + cur.len
            /\ (stream'[sid].eof /\ ~s.eof)
                 => \/ /\ rpc = "chanSend" /\ cur.sid = sid
                       /\ cur.type = FrameData
                       /\ DataEndStream \in cur.flags
                    \/ /\ s.pc = "transition"
                       /\ s.state = StreamStateOpen
                       /\ s.es]_vars

\* C11, witness: the handler has read, three octets at a time, the payloads
\* of two DATA frames, and then end-of-stream.
C11_Witness ==
    /\ Handler = <<ReadAll(SmallLen - 2)>>
    /\ stream[1].gotEOF
    /\ Len(stream[1].got) = 2
    /\ BytesLen(stream[1].got) = 2 * SmallLen

\* C12: a stream that waits in its loop while its handler has returned, the
\* stream being open or half-closed(remote), goes on waiting or starts the
\* final flush, in the same state; the steps apart in which it takes a frame
\* other than WINDOW_UPDATE and PRIORITY (an RST_STREAM closes the stream,
\* and any other frame resets a half-closed(remote) stream).
C12_FinalFlushOnReturn ==
    [][\A sid \in Streams :
         (/\ stream[sid].hpc = "handlerDone"
          /\ stream[sid].pc = "select"
          /\ stream[sid].state \in {StreamStateOpen,
                                     StreamStateHalfClosedRemote}
          /\ ~(/\ rpc = "chanSend"
               /\ cur.sid = sid
               /\ cur.type \notin {FrameWindowUpdate, FramePriority}))
           => /\ stream'[sid].pc \in {"select", "sendHeaders", "sendData"}
              /\ stream'[sid].state = stream[sid].state]_vars

RECURSIVE WrittenBy(_, _)
\* The number of octets the first k calls of a handler write.
WrittenBy(calls, k) ==
    IF k = 0
    THEN 0
    ELSE WrittenBy(calls, k - 1)
         + (IF calls[k].op = "Write" THEN calls[k].n ELSE 0)

\* The call of a handler during which its response is first flushed: the
\* first Write that brings the octets written above the flush size, or, past
\* its last call, its return.
FirstFlushCall(calls) ==
    LET over == {k \in 1 .. Len(calls) : WrittenBy(calls, k) > FlushSize} IN
    IF over = {}
    THEN Len(calls) + 1
    ELSE CHOOSE k \in over : \A j \in over : k <= j

\* The status code in effect when the k-th call of a handler begins: that of
\* the last WriteHeader before it, or 200.
StatusInEffect(calls, k) ==
    LET set == {j \in 1 .. k - 1 : calls[j].op = "WriteHeader"} IN
    IF set = {}
    THEN 200
    ELSE calls[CHOOSE j \in set : \A i \in set : i <= j].n

\* The decimal digits of the status codes the handlers use.
StatusDigits(code) ==
    CASE code = 200 -> <<2, 0, 0>>
      [] code = 404 -> <<4, 0, 4>>
      [] code = 500 -> <<5, 0, 0>>

\* C13: of the frames enqueued for a stream at most one is a HEADERS frame;
\* every DATA frame comes after it; it has END_HEADERS set and END_STREAM
\* clear, is on the stream's id, and has one :status header, its first,
\* with the digits of the status code in effect when the response was first
\* flushed (200 if the handler had called no WriteHeader by then).
C13_ResponseHeadersOnce ==
    \A sid \in Streams :
      LET out == stream[sid].out IN
      /\ Cardinality({i \in 1 .. Len(out) : out[i].type = FrameHeaders}) <= 1
      /\ \A i \in 1 .. Len(out) :
           /\ out[i].sid = sid
           /\ out[i].type = FrameData
                => \E j \in 1 .. i - 1 : out[j].type = FrameHeaders
           /\ out[i].type = FrameHeaders
                => /\ out[i].eh
                   /\ ~out[i].es
                   /\ Cardinality({j \in 1 .. Len(out[i].hdrs) :
                                     out[i].hdrs[j].Name = ":status"}) = 1
                   /\ Head(out[i].hdrs) =
                        [Name |-> ":status",
                         Value |-> StatusDigits(
                            StatusInEffect(Handler,
                                           FirstFlushCall(Handler)))]

\* C13, witness: a handler that set the status code 404, wrote more than
\* the flush size and then set the status code 500 has returned, and its
\* response is enqueued: HEADERS, a DATA frame, and the DATA frame with
\* END_STREAM.
C13_Witness ==
    /\ Handler = <<WriteHeader(404), Write(FlushSize + 1), WriteHeader(500)>>
    /\ Len(stream[1].out) = 3
    /\ stream[1].out[1].type = FrameHeaders
    /\ stream[1].out[3].es

\* The indices of the DATA frames among the frames out.
DataFrames(out) == {i \in 1 .. Len(out) : out[i].type = FrameData}

RECURSIVE Payloads(_)
\* The payloads of the DATA frames among the frames out, concatenated.
Payloads(out) ==
    IF out = <<>>
    THEN <<>>
    ELSE Cat(Payloads(SubSeq(out, 1, Len(out) - 1)),
             IF out[Len(out)].type = FrameData
             THEN out[Len(out)].data
             ELSE <<>>)

\* C14: the payloads of the DATA frames enqueued for a stream are, in order,
\* a prefix of the octets its handler wrote, and all of them once the DATA
\* frame with END_STREAM is enqueued; every DATA payload has at most 4096
\* octets; whenever the handler is not inside a Write at most 4096 octets
\* are buffered; no DATA frame follows one with END_STREAM; and a response
\* of at most 4096 octets is one DATA frame.
C14_ResponseData ==
    \A sid \in Streams :
      LET s == stream[sid]
          out == stream[sid].out
          ended == \E i \in DataFrames(out) : out[i].es
      IN
      /\ IsPrefix(Payloads(out), s.written)
      /\ Cat(Payloads(out), s.wbuf) = s.written
      /\ ended => Payloads(out) = s.written
      /\ \A i \in DataFrames(out) :
           /\ BytesLen(out[i].data) <= 4096
           /\ out[i].len = BytesLen(out[i].data)
           /\ out[i].es => \A j \in DataFrames(out) : j <= i
      /\ s.hpc \in {"running", "handlerDone", "exited"}
           => BytesLen(s.wbuf) <= 4096
      /\ (ended /\ BytesLen(s.written) <= 4096)
           => Cardinality(DataFrames(out)) = 1

\* C14, witness: a handler that wrote 5 octets and then 8192 has returned
\* and its response is enqueued in three DATA frames, the first with the
\* octets of both Writes, the last with END_STREAM and 5 octets.
C14_Witness ==
    /\ Handler = <<Write(SmallLen), Write(2 * FlushSize)>>
    /\ Cardinality(DataFrames(stream[1].out)) = 3
    /\ Len(stream[1].out[2].data) = 2
    /\ stream[1].out[4].es
    /\ stream[1].out[4].len = SmallLen

\* C15: a Write that a handler makes after its stream has transitioned to
\* closed returns the closed-pipe error, leaves the handler with no frame to
\* enqueue, and changes nothing of the connection or of another stream.
C15_WriteAfterClose ==
    [][\A sid \in Streams :
         (/\ stream[sid].state = StreamStateClosed
          /\ stream[sid].pc \in {"handlerWg.Wait", "done"}
          /\ Calls(stream[sid], "Write")
          /\ stream'[sid].written # stream[sid].written)
           => /\ stream'[sid].werr =
                   Append(stream[sid].werr, "io.ErrClosedPipe")
              /\ stream'[sid].hpc = "running"
              /\ stream'[sid].out = stream[sid].out
              /\ streamEvents' = streamEvents
              /\ \A other \in Streams \ {sid} :
                   stream'[other] = stream[other]
              /\ <<rpc, err, ctxDone, wpc>>' = <<rpc, err, ctxDone, wpc>>]_vars

C17_UpgradeBodyEndsStream ==
    [][(cstate = "handshake" /\ cstate' = "h2" /\ h1'.Body # NoBody
        /\ h1'.Method # "PRI")
         => /\ cur.type = FrameData
            /\ cur.es
            /\ stream'[1].eof]_vars

\* C18: the first frame written to the socket is an empty SETTINGS frame
\* without ACK, so that every SETTINGS acknowledgement and every frame of a
\* stream is written after it; the handshake of an upgrade request writes
\* the 101 response and then that frame, the handshake of the client
\* preface writes that frame alone, and nothing but frames is written after
\* the handshake.
C18_InitialSettingsFirst ==
    /\ [](LET frames == {i \in 1 .. Len(sock) : sock[i].kind = "frame"}
              first == CHOOSE i \in frames : \A j \in frames : i <= j
          IN
          /\ frames # {}
               => /\ sock[first].frame =
                       [NoFrame EXCEPT !.type = FrameSettings]
                  /\ \A i \in frames :
                       (sock[i].frame.ack \/ sock[i].frame.sid > 0) => i > first
          /\ h1.Method = "PRI" => \A i \in 1 .. Len(sock) : i \in frames
          /\ (h1.Method \in validMethods /\ sock # <<>>)
               => /\ sock[1].kind = "HTTP/1.1 101"
                  /\ Len(sock) >= 2
                  /\ \A i \in 2 .. Len(sock) : i \in frames
          /\ rpc \notin {"handshake", "Wait", "closed"} => sock # <<>>)
    /\ [][(rpc # "handshake" /\ sock' # sock)
            => /\ wpc = "select"
               /\ streamEvents # <<>>
               /\ sock' = Append(sock, [kind |-> "frame",
                                        frame |-> Head(streamEvents).Frame])]_vars

\* C18, witness: after an upgrade the 101 response, the initial SETTINGS and
\* a frame of stream 1 are written.
C18_Witness ==
    /\ Len(sock) = 3
    /\ sock[1].kind = "HTTP/1.1 101"
    /\ sock[2].frame.type = FrameSettings
    /\ sock[3].frame.sid = 1

\* The handshake fails for the request req: its request line has not three
\* parts, its method is not recognised, its Upgrade header is missing or not
\* h2c, or its HTTP2-Settings header is missing or not base64url.
HandshakeFailsFor(req) ==
    \/ req.parts # 3
    \/ req.Method \notin
         {"PRI", "GET", "HEAD", "POST", "PUT", "DELETE", "CONNECT",
          "OPTIONS", "TRACE", "PATH"}
    \/ /\ req.Method # "PRI"
       /\ \/ req.upgrade # "h2c"
          \/ ~req.settings.has
          \/ ~req.settings.b64

\* C19: once the handshake has read a request for which it fails, nothing
\* is ever written to the socket, no stream and no writer task exists,
\* nothing is enqueued, and the reader is closing the socket or has closed
\* it: its wait for the tasks of the connection is over at once.
C19_FailedHandshake ==
    (h1 # NoRequest /\ HandshakeFailsFor(h1))
        => /\ sock = <<>>
           /\ streamHandlers = {}
           /\ \A sid \in Streams : stream[sid].pc = "none"
           /\ wpc = "notstarted"
           /\ streamEvents = <<>>
           /\ err # "nil"
           /\ rpc \in {"Wait", "closed"}
           /\ rpc = "Wait" => ENABLED ConnClose

\* C19, witness: the handshake failed for an upgrade request without
\* HTTP2-Settings header, and the socket is closed.
C19_Witness ==
    /\ h1.Method = "GET"
    /\ h1.upgrade = "h2c"
    /\ ~h1.settings.has
    /\ rpc = "closed"

\* C20: once the reader has stopped, with every stream open or
\* half-closed(remote), or closing after its handler returned, or done, the
\* shutdown can go on until the socket is closed: some task can take a
\* step.
C20_ShutdownCompletes ==
    (/\ rpc = "Wait"
     /\ \A sid \in Streams :
          \/ stream[sid].pc \in {"none", "done"}
          \/ stream[sid].hpc = "exited"
          \/ /\ stream[sid].state \in {StreamStateOpen,
                                        StreamStateHalfClosedRemote}
             /\ stream[sid].pc \in {"select", "transition"})
        => ENABLED Next

\* C21, as stated: every write to the socket is a step of the writer task,
\* which writes the frame at the head of its queue.
C21_WriterWritesAll ==
    [][sock' # sock
         => /\ wpc = "select"
            /\ streamEvents # <<>>
            /\ sock' = Append(sock, Encoded(Head(streamEvents).Frame))]_vars

\* C21, amended: the handshake writes to the socket while no writer task
\* exists; every later write is a step of the writer task, which takes the
\* event at the head of its queue and appends the frame of that event to
\* what the socket has; the writer writes every frame event it takes; and
\* the queue changes only by an event appended at its end or by the writer
\* taking its head.
C21_WriterWritesAfterHandshake ==
    /\ [][sock' # sock
            => \/ rpc = "handshake" /\ wpc = "notstarted"
               \/ /\ rpc # "handshake"
                  /\ wpc = "select"
                  /\ wpc' = "select"
                  /\ streamEvents # <<>>
                  /\ Head(streamEvents).ev = "frame"
                  /\ streamEvents' = Tail(streamEvents)
                  /\ sock' = Append(sock, Encoded(Head(streamEvents).Frame))
                  /\ stream' = stream]_vars
    /\ [][(/\ streamEvents # <<>>
           /\ streamEvents' = Tail(streamEvents)
           /\ Head(streamEvents).ev = "frame"
           /\ Len(sock) < SockLen)
            => sock' = Append(sock, Encoded(Head(streamEvents).Frame))]_vars
    /\ [][\/ streamEvents' = streamEvents
          \/ streamEvents # <<>> /\ wpc = "select"
               /\ streamEvents' = Tail(streamEvents)
          \/ /\ Len(streamEvents') = Len(streamEvents) + 1
             /\ SubSeq(streamEvents', 1, Len(streamEvents)) = streamEvents]_vars

\* C21, witness: after the client preface the socket has the initial
\* SETTINGS, written by the handshake, then two frames written by the
\* writer: the acknowledgement of the peer's SETTINGS and a frame of
\* stream 1.
C21_Witness ==
    /\ h1.Method = "PRI"
    /\ Len(sock) = 3
    /\ sock[2].frame.type = FrameSettings
    /\ sock[2].frame.ack
    /\ sock[3].frame.sid = 1

\* The highest of the stream ids in ids, 0 if there is none.
Highest(ids) ==
    IF ids = {} THEN 0 ELSE CHOOSE m \in ids : \A i \in ids : i <= m

\* The highest id of the streams the connection has created.
HighestCreated == Highest({sid \in Streams : stream[sid].pc # "none"})

\* The GOAWAY frames enqueued and not yet taken by the writer, and those in
\* what was written to the socket.
GoAwaysEmitted ==
    {streamEvents[i].Frame : i \in {j \in 1 .. Len(streamEvents) :
         /\ streamEvents[j].ev = "frame"
         /\ streamEvents[j].Frame.type = FrameGoAway}}
    \cup {sock[i].frame : i \in {j \in 1 .. Len(sock) :
         /\ sock[j].kind = "frame"
         /\ sock[j].frame.type = FrameGoAway}}

\* C26, as stated: the GOAWAY the reader is about to enqueue carries the
\* highest stream id of the frames the connection has read, the frame that
\* made it fail among them.
C26_GoAwayHighestObserved ==
    (rpc = "writeFrame" /\ pend.type = FrameGoAway)
        => pend.last = Highest({HighestCreated, cur.sid, cont.sid})

\* C26, amended: the GOAWAY the reader is about to enqueue, the one it has
\* enqueued, and every GOAWAY in the queue or written to the socket, carry
\* the highest id of the streams the connection has created (0 if none);
\* the error code is PROTOCOL_ERROR for a protocol error, STREAM_CLOSED for
\* a frame of a stream that is gone, FRAME_SIZE_ERROR for a frame above
\* MaxFrameSize, and the reader sends a GOAWAY for no other error.
C26_GoAwayHighestCreated ==
    LET pending == IF pend.type = FrameGoAway THEN {pend} ELSE {}
        sent == IF goAway # NoFrame THEN {goAway} ELSE {}
    IN
    /\ GoAwaysEmitted \subseteq sent
    /\ \A g \in pending \cup sent :
         /\ g.type = FrameGoAway
         /\ g.sid = 0
         /\ g.last = HighestCreated
         /\ g.code = (CASE err = ErrConnProtocolError -> ErrProtocolError
                        [] err = ErrConnStreamError -> ErrStreamClosed
                        [] err = ErrExceedsMaxFrameSize -> ErrFrameSizeError)
    /\ (pending # {} /\ cur.sid > 0 /\ cur.sid % 2 = 0)
         => pend.code = ErrProtocolError
    /\ (pending # {} /\ cur.len > settings.MaxFrameSize)
         => pend.code = ErrFrameSizeError
    /\ (pending # {} /\ pend.code = ErrStreamClosed)
         => /\ cur.sid \notin streamHandlers
            /\ cur.sid <= HighestCreated

\* C26, witness: after HEADERS on stream 3, a frame on stream 1, which was
\* never opened, made the reader enqueue GOAWAY with last stream id 3 and
\* STREAM_CLOSED.
C26_Witness ==
    /\ goAway # NoFrame
    /\ goAway.last = 3
    /\ goAway.code = ErrStreamClosed
    /\ stream[1].pc = "none"

\* The stream sid takes the frame the reader is sending it.
Takes(sid) ==
    /\ rpc = "chanSend"
    /\ cur.sid = sid
    /\ stream[sid].pc = "select"
    /\ stream'[sid] # stream[sid]
    /\ cur' # cur

\* C27: the state of every stream is idle, open, half-closed(remote) or
\* closed.  It changes from idle to open when the stream takes HEADERS; from
\* open to half-closed(remote) for the END_STREAM of those HEADERS or when
\* the stream takes DATA with END_STREAM; from open or half-closed(remote)
\* to closed when the stream takes RST_STREAM, when it has enqueued the last
\* DATA frame after its handler returned, or, half-closed(remote) only,
\* when it has enqueued its RST_STREAM with STREAM_CLOSED; and in no other
\* way.  A closed stream takes no frame, its request body does not change,
\* and it stays closed.
C27_StreamStates ==
    /\ [](\A sid \in Streams :
            stream[sid].state \in {StreamStateIdle, StreamStateOpen,
                                   StreamStateHalfClosedRemote,
                                   StreamStateClosed})
    /\ [][\A sid \in Streams :
            LET s == stream[sid]
                to == stream'[sid].state
            IN
            to # s.state
              => \/ /\ s.state = StreamStateIdle
                    /\ to = StreamStateOpen
                    /\ Takes(sid)
                    /\ cur.type = FrameHeaders
                 \/ /\ s.state = StreamStateOpen
                    /\ to = StreamStateHalfClosedRemote
                    /\ \/ /\ s.pc = "transition"
                          /\ s.es
                          /\ s.reqbuf = <<>>
                       \/ /\ Takes(sid)
                          /\ cur.type = FrameData
                          /\ cur.es
                 \/ /\ s.state \in {StreamStateOpen,
                                     StreamStateHalfClosedRemote}
                    /\ to = StreamStateClosed
                    /\ \/ Takes(sid) /\ cur.type = FrameRSTStream
                       \/ /\ s.pc = "sendData"
                          /\ s.hpc = "exited"
                          /\ stream'[sid].out # <<>>
                          /\ stream'[sid].out[Len(stream'[sid].out)].type
                               = FrameData
                          /\ stream'[sid].out[Len(stream'[sid].out)].es
                       \/ /\ s.state = StreamStateHalfClosedRemote
                          /\ s.pc = "writeFrame"
                          /\ stream'[sid].out[Len(stream'[sid].out)]
                               = [NoFrame EXCEPT !.type = FrameRSTStream,
                                                 !.sid = sid,
                                                 !.code = ErrStreamClosed]]_vars
    /\ [][\A sid \in Streams :
            stream[sid].state = StreamStateClosed
              => /\ stream'[sid].state = StreamStateClosed
                 /\ ~Takes(sid)
                 /\ stream[sid].pc # "select"
                 /\ stream'[sid].pc # "select"
                 /\ stream'[sid].accepted = stream[sid].accepted
                 /\ stream'[sid].reqHeaders = stream[sid].reqHeaders
                 /\ stream'[sid].eof = stream[sid].eof]_vars

\* C27, witness: stream 1 has gone from idle through open and
\* half-closed(remote) to closed, for its handler returned, while stream 3
\* is open.
C27_Witness ==
    /\ stream[1].state = StreamStateClosed
    /\ stream[1].eof
    /\ stream[1].hpc = "exited"
    /\ Len(stream[1].out) = 2
    /\ stream[3].state = StreamStateOpen

\* C28: while a closed stream is in the registry, the writer task running
\* and the connection not shut down, the reader does not hold the registry
\* mutex for a send to that stream: the task of a closed stream receives
\* nothing, so that send would never end, and the writer, which needs the
\* mutex to remove the stream, would never remove it.
C28_ClosedStreamReaped ==
    \A sid \in Streams :
      (/\ stream[sid].state = StreamStateClosed
       /\ sid \in streamHandlers
       /\ wpc \in {"select", "closeStream"}
       /\ ~ctxDone)
        => ~(rpc = "chanSend" /\ streamMu = "reader" /\ cur.sid = sid)

\* The reader, in this step, has the complete HEADERS of stream sid, of a
\* size within MaxFrameSize and with a header block that decoded.
HeadersAccepted(sid) ==
    /\ cstate = "h2"
    /\ rpc \in {"read", "continuation"}
    /\ rpc' \notin {"read", "continuation"}
    /\ cur'.type = FrameHeaders
    /\ cur'.eh
    /\ cur'.sid = sid
    /\ cur'.len <= settings.MaxFrameSize
    /\ cont'.len <= settings.MaxFrameSize
    /\ err' \notin {ErrExceedsMaxFrameSize, "panic", "decode"}
    /\ cont'.type \in {NoFrame.type, FrameContinuation}
    /\ cont'.type = FrameContinuation => cont'.sid = sid /\ cont'.eh

\* C29: no stream id ever has more than one stream task.  A task is created
\* only for an id above the highest id of the streams created before, which
\* that id then is, by the reader having HEADERS of that id (or by the
\* upgrade, for stream 1), and the reader goes on to send those HEADERS to
\* the new stream, which is registered and waits for them.  HEADERS of an
\* odd id above the highest create the stream in that way; HEADERS of an id
\* at or below it create none and change no stream and not the registry.
C29_OneTaskPerStreamId ==
    /\ [](\A sid \in Streams : stream[sid].tasks <= 1)
    /\ [](\A sid \in Streams :
            (stream[sid].tasks = 0) = (stream[sid].pc = "none"))
    /\ [](\A sid \in Streams :
            (rpc = "chanSend" /\ cur.sid = sid /\ stream[sid].pc = "select")
              => ENABLED Deliver(sid))
    /\ [][\A sid \in Streams :
            stream'[sid].tasks # stream[sid].tasks
              => /\ HighestCreated < sid
                 /\ maxStreamId < sid
                 /\ maxStreamId' = sid
                 /\ stream[sid].tasks = 0
                 /\ stream'[sid] = [NoStream EXCEPT !.pc = "select",
                                                    !.tasks = 1]
                 /\ sid \in streamHandlers'
                 /\ cur'.type = FrameHeaders
                 /\ cur'.sid = sid
                 /\ rpc' = "chanSend"
                 /\ streamMu' = "reader"]_vars
    /\ [][\A sid \in Streams :
            (HeadersAccepted(sid) /\ sid > HighestCreated)
              => /\ stream[sid].tasks = 0
                 /\ stream'[sid].tasks = 1]_vars
    /\ [][\A sid \in Streams :
            (HeadersAccepted(sid) /\ sid <= HighestCreated)
              => /\ stream' = stream
                 /\ streamHandlers' = streamHandlers
                 /\ maxStreamId' = maxStreamId]_vars

\* C29, witness: stream 1 was created, closed and removed from the
\* registry, and the reader, with further HEADERS of stream 1, has created
\* no stream and fails.
C29_Witness ==
    /\ stream[1].tasks = 1
    /\ stream[1].state = StreamStateClosed
    /\ 1 \notin streamHandlers
    /\ cur.type = FrameHeaders
    /\ cur.sid = 1
    /\ err = ErrConnStreamError

\* ------------------------------------------------------------------------
\* Properties of the codecs
\* ------------------------------------------------------------------------
\* The prefix width of the integer that opens a field: 7 for an indexed
\* field, 6 with incremental indexing, 5 for a size update, 4 otherwise.
PrefixOf(field) ==
    IF field >= 128 THEN 7
    ELSE IF field \div 64 = 1 THEN 6
    ELSE IF field \div 32 = 1 THEN 5
    ELSE 4

RECURSIVE ContinuationLen(_)
\* The number of octets of an integer's continuation at the head of bs: up
\* to and including the first octet without the top bit.
ContinuationLen(bs) ==
    IF bs = <<>> THEN 0
    ELSE IF bs[1] < 128 THEN 1
    ELSE 1 + ContinuationLen(Tail(bs))

\* The number of octets of the prefix integer at the head of bs.
IntLen(bs, prefix) ==
    IF bs[1] % Pow2(prefix) < Pow2(prefix) - 1
    THEN 1
    ELSE 1 + ContinuationLen(Tail(bs))

\* "content-length", the name at index 28 of the static table, and "49137"
ContentLengthIndex == 28
Value49137 == <<52, 57, 49, 51, 55>>

\* C25: a literal field whose name index takes more than one octet (index
\* 28 with a 4-bit prefix) decodes, without error, to the header with the
\* static name and the literal value; and after the prefix integer that
\* opens a block the cursor is right after the integer's last octet.
C25_MultiOctetNameIndex ==
    call.op = "Decode" =>
      /\ call.in = ContentLength49137 =>
           /\ call.out.err = "nil"
           /\ call.out.headers =
                <<H(staticTable[ContentLengthIndex + 1].Name, Value49137)>>
      /\ LET prefix == PrefixOf(call.in[1])
         IN  IntLen(call.in, prefix) <= Len(call.in) =>
               decInt(call.in, prefix).bs =
                 SubSeq(call.in, IntLen(call.in, prefix) + 1, Len(call.in))

\* C22: decoding the encoder's output of a header list with a decoder that
\* has decoded nothing yet returns the list with no error, consumes the
\* whole block and leaves the dynamic table empty.
C22_EncodeDecode ==
    call.op = "EncodeDecode" =>
      /\ call.out.err = "nil"
      /\ call.out.headers = call.in
      /\ call.out.bs = <<>>
      /\ indexTable.dynamicTable = <<>>

RECURSIVE ChargedSize(_)
\* The sum of len(name) + len(value) + 32 over the entries of a table.
ChargedSize(entries) ==
    IF entries = <<>> THEN 0
    ELSE Size(Head(entries)) + ChargedSize(Tail(entries))

\* The sequence p is what is left of s when some of its last elements are
\* removed.
OldestRemoved(p, s) == Len(p) <= Len(s) /\ p = SubSeq(s, 1, Len(p))

\* C24: every insertion and size update completes without fault and leaves
\* the charged size of the table at most the maximum size, having removed
\* only the oldest entries; a size update to 0 leaves the table empty, and
\* so does the insertion of an entry larger than the maximum.
C24_TableWithinBudget ==
    /\ [](/\ ~indexTable.panic
          /\ call.op \in {"Add", "UpdateMaxSize"} => call.out.err = "nil"
          /\ indexTable.currentSize = ChargedSize(indexTable.dynamicTable)
          /\ indexTable.currentSize <= indexTable.maxSize
          /\ (call.op = "UpdateMaxSize" /\ call.in = 0)
               => indexTable.dynamicTable = <<>>
          /\ (call.op = "Add" /\ Size(call.in) > indexTable.maxSize)
               => indexTable.dynamicTable = <<>>)
    /\ [][/\ call'.op = "Add" =>
               OldestRemoved(indexTable'.dynamicTable,
                             <<call'.in>> \o indexTable.dynamicTable)
          /\ call'.op = "UpdateMaxSize" =>
               OldestRemoved(indexTable'.dynamicTable,
                             indexTable.dynamicTable)
         ]_vars

\* The blocks of one literal field with incremental indexing, and the
\* header each stands for with the index table i: a new name "a", the name
\* at index 1, and the name at index 63, each with the value "v".
IncrementalBlocks == {IncrementalAV, <<65, 1, OctetV>>, <<127, 0, 1, OctetV>>}
FieldOf(bs, i) ==
    IF bs = IncrementalAV THEN H(StrA, StrV)
    ELSE IF bs = <<65, 1, OctetV>> THEN H(Get(i, 1).header.Name, StrV)
    ELSE H(Get(i, 63).header.Name, StrV)
NameAddressable(bs, i) ==
    bs = <<127, 0, 1, OctetV>> => Get(i, 63).err = "nil"

\* The blocks of one field that is indexed, without indexing or never
\* indexed.
OtherBlocks ==
    {bs \in DecodeInputs : bs[1] >= 128 \/ bs[1] < 32}

\* C30: decoding a literal field with incremental indexing inserts the
\* decoded header at the front of the dynamic table: index 62 refers to it
\* and the index of every earlier entry has increased by one.  Decoding an
\* indexed field, a literal field without indexing or a never-indexed field
\* leaves the dynamic table unchanged.
C30_IncrementalIndexing ==
    [][call'.op = "Decode" =>
         /\ (call'.in \in IncrementalBlocks
               /\ NameAddressable(call'.in, indexTable)) =>
              /\ indexTable'.dynamicTable =
                   <<FieldOf(call'.in, indexTable)>>
                     \o indexTable.dynamicTable
              /\ Get(indexTable', 62).header = FieldOf(call'.in, indexTable)
              /\ \A k \in 1..Len(indexTable.dynamicTable) :
                   Get(indexTable', 62 + k) = Get(indexTable, 61 + k)
         /\ call'.in \in OtherBlocks =>
              indexTable'.dynamicTable = indexTable.dynamicTable
      ]_vars

\* C23: for each supported frame type, parsing the octets that the frame's
\* Encode produced yields, without error, a frame equal to the original on
\* its semantic fields (stream id, flags, data or block fragment, settings
\* entries, priority fields, error code, last stream id, increment).
C23_EncodeParse ==
    call.op = "EncodeParse" =>
      /\ call.out.err = "nil"
      /\ call.out.frame = call.in

\* The blocks that open with a dynamic table size update, to 0 (20) and to
\* 40 (3f 09: 31 + 9), followed by the indexed field 82; and the maximum
\* size each sets.
SizeUpdateBlocks == {<<32, 130>>, <<63, 9, 130>>}
SizeOf(bs) == IF bs[1] = 32 THEN 0 ELSE 40

\* C31: a size update at the start of a header block is consumed with its
\* 5-bit-prefix integer, sets the maximum size of the index table to that
\* value, with eviction at once, and the fields that follow are decoded.
C31_SizeUpdate ==
    (call.op = "Decode" /\ call.in \in SizeUpdateBlocks) =>
      /\ call.out.err = "nil"
      /\ call.out.bs = <<>>
      /\ call.out.headers = <<staticTable[2 + 1]>>
      /\ indexTable.maxSize = SizeOf(call.in)
      /\ indexTable.currentSize <= indexTable.maxSize

\* C32: for every prefix width of 4 to 7 bits and every value below 2^31,
\* decInt on the octets that encodeInt produced returns the value, when
\* the value takes one octet (below 2^N - 1) and when it takes more (2^N - 1
\* itself included).
C32_IntRoundTrip ==
    call.op = "EncodeInt" =>
      /\ call.out.err = "nil"
      /\ call.out.i = call.in.num

\* The value 2^5 - 1 went through two octets, and the largest value through
\* six.
C32_Witness ==
    /\ call.op = "EncodeInt"
    /\ call.in.prefix = 5
    /\ call.in.num = MaxValue
    /\ Len(call.in.octets) = 6
    /\ call.out.i = MaxValue
    /\ encodeInt(0, 5, 31) = <<31, 0>>
    /\ decInt(<<31, 0>>, 5).i = 31

\* C38: Decode returns on every input, with a header list or an error: a
\* block that holds a size update does not keep it in the loop, and a block
\* cut short is an error, not a fault.
C38_DecodeReturns ==
    call.op = "Decode" => call.out.err \notin {"hang", "panic"}

\* C38, for the blocks cut short alone: Decode does not fault.
C38_TruncatedIsError ==
    (call.op = "Decode" /\ call.in \notin SizeUpdateBlocks) =>
      call.out.err # "panic"

\* C40: a SETTINGS entry whose 16-bit identifier is not one of 1..6 (0x0105
\* for one), applied from a SETTINGS frame or from an HTTP2-Settings payload,
\* leaves every setting as it was.
C40_UnknownIdentifierIgnored ==
    (call.op = "Settings" /\ call.in.ident \notin 1 .. 6) =>
      /\ call.out.err = "nil"
      /\ call.out.frame = NewSettings
      /\ call.out.upgrade = NewSettings

\* C40, in the terms of the program: the low octet of the identifier names
\* the setting that gets the value, and the two paths agree.
C40_LowOctetDecides ==
    call.op = "Settings" =>
      /\ call.out.err = "nil"
      /\ call.out.frame =
           SetValue(NewSettings, call.in.ident % 256, call.in.value)
      /\ call.out.upgrade = call.out.frame
      /\ (call.in.ident % 256 \in 1 .. 6) = (call.out.frame # NewSettings)

\* C33: when the reader, not in the middle of a header block, reads a
\* CONTINUATION frame, on stream 0 or on a stream that is open included,
\* handleH2 returns the connection's protocol error and the reader goes on to
\* send GOAWAY(PROTOCOL_ERROR); the frame is not ignored.
C33_ContinuationFails ==
    [][(rpc = "read" /\ nread' # nread /\ cur'.type = FrameContinuation)
        => /\ err' = ErrConnProtocolError
           /\ rpc' = "writeFrame"
           /\ pend'.type = FrameGoAway]_vars

\* C33, in the terms of the program: such a CONTINUATION fails the connection
\* when its stream identifier is even, or when no stream is registered for
\* it; on stream 0 the reader reads on, and for a registered stream it goes
\* to hand the frame to the stream.
C33_ContinuationHandled ==
    [][(rpc = "read" /\ nread' # nread /\ cur'.type = FrameContinuation)
        => CASE cur'.sid = 0 -> rpc' = "read" /\ err' = err
             [] cur'.sid % 2 = 0 -> err' = ErrConnProtocolError
             [] cur'.sid \in streamHandlers ->
                  rpc' \notin {"read", "writeFrame"} /\ err' = err
             [] OTHER -> err' = UnknownStreamError(cur'.sid)]_vars

\* C34: the reader, the stream tasks and the writer do not block one another
\* for good around the registry mutex: in no state does the reader hold the
\* mutex in sendToStream, for a stream task that is waiting to enqueue an
\* event on the full event queue, while the writer waits for the mutex in
\* closeStream.
C34_NoMutexDeadlock ==
    ~(/\ rpc = "chanSend"
      /\ streamMu = "reader"
      /\ cur.sid \in Streams
      /\ stream[cur.sid].pc \in {"transition", "writeFrame", "sendHeaders",
                                 "sendData"}
      /\ Len(streamEvents) = EventQueueCap
      /\ wpc = "closeStream")

\* C34, the state it excludes is final: once the three tasks wait like this,
\* they wait in every later state, and the event queue stays full.
C34_DeadlockIsFinal ==
    [][~C34_NoMutexDeadlock
        => /\ ~C34_NoMutexDeadlock'
           /\ streamEvents' = streamEvents
           /\ rpc' = rpc /\ wpc' = wpc
           /\ stream'[cur.sid] = stream[cur.sid]]_vars

\* C35: the reader is never in sendToStream, waiting on the channel of a
\* stream whose task has closed the stream and so receives nothing more:
\* such a wait would never end.  This holds for stream 1 during the upgrade
\* handshake as well, when the writer task has not started.
C35_DeliveryCompletes ==
    rpc = "chanSend" => stream[cur.sid].state # StreamStateClosed

\* C35, during the upgrade handshake alone.
C35_HandshakeDeliveryCompletes ==
    (rpc = "chanSend" /\ cstate = "handshake")
        => stream[cur.sid].state # StreamStateClosed

\* C35, the wait is for good: a reader that waits on the channel of a closed
\* stream waits on it in every later state, with the frame and the mutex.
C35_WaitIsFinal ==
    [][(rpc = "chanSend" /\ stream[cur.sid].state = StreamStateClosed)
        => /\ rpc' = "chanSend"
           /\ cur' = cur
           /\ streamMu' = "reader"
           /\ stream'[cur.sid].state = StreamStateClosed]_vars

\* C36: a handler task that has returned and offers its completion signal on
\* handlerDone is not left with a stream that is closed already (by an
\* RST_STREAM it received or by its own stream-closed error): the task of
\* such a stream is out of its loop and takes no signal, so neither task
\* would end.
C36_HandlerSignalAccepted ==
    \A sid \in Streams :
      stream[sid].hpc = "handlerDone"
        => stream[sid].state # StreamStateClosed

\* C36, the two tasks stay: once the handler task offers its signal to a
\* closed stream, it offers it in every later state, and the stream task
\* never gets through its wait for the handler task to the release of the
\* connection's wait group.
C36_TasksStay ==
    [][\A sid \in Streams :
         (stream[sid].hpc = "handlerDone"
          /\ stream[sid].state = StreamStateClosed)
           => /\ stream'[sid].hpc = "handlerDone"
              /\ stream'[sid].state = StreamStateClosed
              /\ stream'[sid].pc \in {"transition", "handlerWg.Wait"}
              /\ rpc' # "closed"]_vars

\* An RST_STREAM, or a DATA frame with END_STREAM, is among the frames the
\* stream has enqueued.
EndEnqueued(s) ==
    \E i \in 1 .. Len(s.out) :
      \/ s.out[i].type = FrameRSTStream
      \/ s.out[i].type = FrameData /\ s.out[i].es

\* The stream has received an RST_STREAM: it is closed, and not by a frame
\* of its own.
RSTReceived(s) == s.state = StreamStateClosed /\ ~EndEnqueued(s)

\* C37: once a stream has enqueued an RST_STREAM or a DATA frame with
\* END_STREAM, or has received an RST_STREAM, no HEADERS and no DATA frame
\* of that stream is enqueued any more, whatever its handler writes.
C37_NothingAfterEnd ==
    [][\A sid \in Streams :
         ((EndEnqueued(stream[sid]) \/ RSTReceived(stream[sid]))
          /\ stream'[sid].out # stream[sid].out)
           => stream'[sid].out[Len(stream'[sid].out)].type
                \notin {FrameHeaders, FrameData}]_vars

\* C37, for the frames of the stream task alone: after the end of the
\* stream it enqueues no HEADERS and no DATA frame.
C37_NothingFromStreamTask ==
    [][\A sid \in Streams :
         ((EndEnqueued(stream[sid]) \/ RSTReceived(stream[sid]))
          /\ stream'[sid].out # stream[sid].out)
           => stream[sid].hpc \in {"sendHeaders", "sendData"}]_vars

\* C37, for a Write that the handler begins after the end of the stream: it
\* does not go to enqueue a frame.
C37_NoFlushAfterEnd ==
    [][\A sid \in Streams :
         ((EndEnqueued(stream[sid]) \/ RSTReceived(stream[sid]))
          /\ stream[sid].hpc = "running")
           => stream'[sid].hpc \notin {"sendHeaders", "sendData"}]_vars

\* C39: the highest stream id of the connection (maxStreamId) is 0 or odd
\* and never decreases; every id in the registry is odd and at most the
\* highest id; and every id in the registry has exactly one stream task,
\* created for it.
C39_RegistryIds ==
    /\ [](maxStreamId = 0 \/ maxStreamId % 2 = 1)
    /\ [][maxStreamId' >= maxStreamId]_vars
    /\ [](\A sid \in streamHandlers :
            /\ sid % 2 = 1
            /\ sid <= maxStreamId
            /\ sid \in Streams
            /\ stream[sid].tasks = 1
            /\ stream[sid].pc # "none")

\* C39, witness: with stream 3 created and registered, the reader had
\* HEADERS of stream 1, which created no stream and left the highest id at
\* 3.
C39_Witness ==
    /\ maxStreamId = 3
    /\ streamHandlers = {3}
    /\ stream[3].tasks = 1
    /\ stream[1].pc = "none"
    /\ cur.type = FrameHeaders
    /\ cur.sid = 1
    /\ err = ErrConnStreamError

====
